---- MODULE Spec2Model ----
(***************************************************************************)
(* wx-echo: the Interceptor (onion-model middleware dispatcher) and the    *)
(* Echo request orchestrator that drives it.                               *)
(*                                                                         *)
(* JavaScript's run-to-completion scheduling is modelled with explicit     *)
(* frames: every call of an async function (and every promise created by  *)
(* the environment: timers, the transport) is a frame.  `stack` is the     *)
(* synchronous call stack; the frame on top runs.  An `await` suspends the *)
(* frame and gives control back to its caller; a suspended frame is        *)
(* resumed, on an empty stack, once the promise it awaits has settled.     *)
(* An action whose name tells what happened to the awaited promise is the  *)
(* resumption of the frame f it is given.                                  *)
(***************************************************************************)
EXTENDS Integers, Sequences, FiniteSets, TLC

\* Bounds of the model.
MaxMw == 2
MaxHandlers == 2
MaxInterceptors == 3
MaxEntries == 4
MaxRetries == 2
MaxFetch == 2
MaxLate == 1
\* setTask calls that a transport given to the constructor makes per invocation
MaxSetTask == 2

VARIABLES
  middleware,     \* Interceptor.middleware: registered middleware, in order
  errorHandlers,  \* Interceptor.errorHandlers: registered handlers, in order
  context,        \* the context of the request in flight
  index,          \* the cursor `index` of the running execute
  frames,         \* every async call / promise made so far, by id
  stack,          \* synchronous call stack of frame ids, top last
  trace,          \* instrumentation: what was observed, in order
  calls,          \* how many times the transport was invoked
  phase,          \* "config" before the request is issued, then "inflight"
  cur,            \* the request whose context and cursor `context` and `index` are
  parked,         \* the context and cursor of every request issued, as last seen
  taskPromise,    \* Echo.request: what taskPromise of each request resolved with
  taskHandle,     \* BreezeRequest.taskHandle
  defaultOptions, \* the #defaultOptions of the client
  interceptors,   \* further Interceptor instances: the arrays their fields refer to
  arrays,         \* the arrays those instances hold, by reference
  wx              \* the global wx of the environment the client runs in

\* the task handles, and what is configured apart from the two lists
tasks == <<taskPromise, taskHandle>>
others == <<defaultOptions, interceptors, arrays, wx>>

vars == <<middleware, errorHandlers, context, index, frames, stack, trace, calls, phase,
          cur, parked, taskPromise, taskHandle, defaultOptions, interceptors, arrays, wx>>

(***************************************************************************)
(* Values.                                                                 *)
(***************************************************************************)
None == <<"undefined", 0>>
ReentrantNext == <<"next() called multiple times", 0>>
MissingWx == <<"wx.request is not defined. Please check if you are in a WeChat Mini Program environment.", 0>>
ReferenceError == <<"ReferenceError: wx is not defined", 0>>
\* the global wx: an object with request, declared but undefined, or not declared
Platforms == {"available", "undefined", "undeclared"}
MwError(i) == <<"middleware error", i>>
HandlerError(j) == <<"handler error", j>>
TransportError(n) == <<"transport failure", n>>
TransportResponse(n) == <<"transport response", n>>
MwResponse(i) == <<"short-circuit response", i>>
Recovery(j) == <<"recovery response", j>>
Handle(n) == <<"request task", n>>
AbortFailure(n) == <<"request:fail abort", n>>

(***************************************************************************)
(* Request descriptors.  An options bag has the fields below; Absent is a  *)
(* field, or a header, that is not there, and AbsentHeaders a headers      *)
(* field that is not there (NoHeaders is the empty map {}).  A URL is the  *)
(* sequence of its pieces: the piece "http", the piece "/", or a run of    *)
(* other characters (which never starts with "http").                      *)
(***************************************************************************)
Absent == "absent"
OptionFields == {"method", "headers", "timeout", "responseType", "dataType"}
HeaderNames == {"Accept", "Token"}
NoHeaders == [k \in HeaderNames |-> Absent]
AbsentHeaders == [k \in HeaderNames |-> "no headers"]
Missing(k) == IF k = "headers" THEN AbsentHeaders ELSE Absent
NoOptions == [k \in OptionFields |-> Missing(k)]
Verbs == {"GET", "POST", "PUT", "DELETE", "PATCH", "HEAD", "OPTIONS"}

Path == <<"/", "users", "/", "1">>
BarePath == <<"users", "/", "1">>
Absolute == <<"http", "s:", "/", "/", "other.example.com", "/", "x">>
Base == <<"http", "s:", "/", "/", "api.example.com">>
BaseSlash == Base \o <<"/">>

\* { ...a, ...b }
Spread(a, b) == [k \in DOMAIN a |-> IF b[k] # Missing(k) THEN b[k] ELSE a[k]]
\* a ?? b
Coalesce(a, b) == IF a # Absent THEN a ELSE b
\* a || {}
OrEmpty(h) == IF h = AbsentHeaders THEN NoHeaders ELSE h

\* a plausible slip: the headers of the call site replace the default ones
CombineShallow(defaults, options) == Spread(defaults, options)

\* combineRequestOptions(defaultOptions, options)
combineRequestOptions(defaults, options) ==
  LET special == {"headers", "method", "timeout", "responseType"}
      rest(o) == [k \in OptionFields |-> IF k \in special THEN Missing(k) ELSE o[k]]
  IN [Spread(rest(defaults), rest(options)) EXCEPT
        !.method = Coalesce(options.method, defaults.method),
        !.headers = Spread(OrEmpty(defaults.headers), OrEmpty(options.headers)),
        !.timeout = Coalesce(options.timeout, defaults.timeout),
        !.responseType = Coalesce(options.responseType, defaults.responseType)]

\* a plausible slip: { method: V, ...options }
VerbUnder(options, V) == Spread([NoOptions EXCEPT !.method = V], options)

\* { ...options, method: V }
VerbOptions(options, V) == [options EXCEPT !.method = V]

\* the baseURLMiddleware of useBaseUrl, applied to ctx.request.url
JoinBase(base, url) ==
  IF url # <<>> /\ url[1] # "http"
  THEN LET sanitizedBaseUrl == IF base # <<>> /\ base[Len(base)] = "/"
                               THEN SubSeq(base, 1, Len(base) - 1) ELSE base
           sanitizedUrl == IF url[1] = "/" THEN url ELSE <<"/">> \o url
       IN sanitizedBaseUrl \o sanitizedUrl
  ELSE url

(***************************************************************************)
(* Middleware and error handlers are small programs.                       *)
(***************************************************************************)
MwKinds == {"onion", "short", "throwPre", "throwPost", "twice", "retry"}
HandlerKinds == {"recover", "pass", "fail"}

\* The terminal middleware that the r-th BreezeRequest.#fetch registers; it
\* captures the requestConfig of that call.
TerminalOf(r) == <<"terminal 1", "terminal 2", "terminal 3", "terminal 4">>[r]
Terminals == {TerminalOf(r) : r \in 1..4}
TerminalIndex(b) == CHOOSE k \in 1..4 : TerminalOf(k) = b

Program(b) ==
  CASE b = "onion"     -> <<"enter", "next", "exit">>
    [] b = "short"     -> <<"enter", "respond">>
    [] b = "throwPre"  -> <<"enter", "throw">>
    [] b = "throwPost" -> <<"enter", "next", "throw">>
    [] b = "twice"     -> <<"enter", "next", "next", "exit">>
    [] b = "retry"     -> <<"enter", "tryNext", "exit">>
    [] b = "swallow"   -> <<"enter", "catchNext", "exit">>
    [] b = "markThrow" -> <<"enter", "claim", "throw">>
    [] b = "core"      -> <<"next", "transport">>
    [] b \in Terminals -> <<"next", "transport">>
    [] b = "slow"      -> <<"timer", "next">>
    [] b = "plain"     -> <<"enter", "call", "exit">>
    [] b = "again"     -> <<"enter", "next", "catchNext", "exit">>
    [] b = "baseUrl"   -> <<"prefix", "next">>
    [] b = "baseUrl/"  -> <<"prefix", "next">>
    [] b = "recover"   -> <<"mark">>
    [] b = "pass"      -> <<"timer">>
    [] b = "fail"      -> <<"throw">>
    [] b = "markFail"  -> <<"mark", "throw">>
    [] OTHER           -> <<>>

\* The terminal handed to execute is the last link of the chain (Echo.request
\* hands one over; BreezeRequest.#fetch calls execute(context) without).
CoreAt(i) == IF i = Len(middleware) /\ phase = "inflight" THEN "core" ELSE ""

\* the use calls made while a request was in flight, as the trace shows them
LateUses == {k \in DOMAIN trace : trace[k][1] = "use"}
LateCatches == {k \in DOMAIN trace : trace[k][1] = "catch"}

\* a plausible slip: execute works on a copy of the list taken when it began
FnAtSnapshot(i) ==
  LET n == Len(middleware) - Cardinality(LateUses)
  IN IF i < n THEN middleware[i + 1]
     ELSE IF i = n /\ phase = "inflight" THEN "core" ELSE ""

\* const fn = this.middleware[i] (0-based), "" when there is none.
FnAt(i) == IF i < Len(middleware) THEN middleware[i + 1] ELSE CoreAt(i)

(***************************************************************************)
(* Frames.                                                                 *)
(***************************************************************************)
Frame(kind, b, i, arg, st) ==
  [kind |-> kind, b |-> b, i |-> i, arg |-> arg, status |-> st,
   pc |-> "start", ip |-> 1, wait |-> 0, val |-> None, n |-> 0, r |-> cur]

NewId == Len(frames) + 1
\* the #fetch call number r
FetchOf(r) == CHOOSE f \in DOMAIN frames : frames[f].kind = "fetch" /\ frames[f].r = r
Top == stack[Len(stack)]
Settled(p) == frames[p].status \in {"resolved", "rejected"}
Awaited(f) == frames[frames[f].wait]

\* The frame on top of the stack is a `kind` frame at `pc`.
At(kind, pc) ==
  /\ stack # <<>>
  /\ frames[Top].kind = kind
  /\ frames[Top].pc = pc

Op(f) ==
  LET p == Program(frames[f].b)
  IN IF frames[f].ip <= Len(p) THEN p[frames[f].ip] ELSE "end"

\* The frame on top of the stack is a middleware or handler at operation op.
AtOp(op, pc) ==
  /\ stack # <<>>
  /\ frames[Top].kind \in {"mw", "handler"}
  /\ frames[Top].pc = pc
  /\ Op(Top) = op

\* Control leaves the frame on top of the stack (it awaits or has settled) and
\* goes back to its caller; a caller that was about to await the promise it
\* just got suspends in turn.  st is the stack below the frame that left.
RECURSIVE Yield(_, _)
Yield(fs, st) ==
  IF st # <<>> /\ fs[st[Len(st)]].pc = "wait"
  THEN Yield([fs EXCEPT ![st[Len(st)]].status = "suspended"], SubSeq(st, 1, Len(st) - 1))
  ELSE [frames |-> fs, stack |-> st]

\* The stack while f runs: f itself when it has just been resumed.
Stk(f) == IF stack = <<>> THEN <<f>> ELSE stack

\* f calls an async function and will await its promise: the callee runs on top of f.
CallFrom(f, fr) ==
  /\ frames' = Append([frames EXCEPT ![f].pc = "wait", ![f].wait = NewId,
                                     ![f].status = "running"], fr)
  /\ stack' = Append(Stk(f), NewId)

\* f awaits a new promise that the environment settles later.
AwaitNew(f, fr) ==
  LET y == Yield(Append([frames EXCEPT ![f].pc = "wait", ![f].wait = NewId,
                                       ![f].status = "running"], fr), Stk(f))
  IN /\ frames' = y.frames
     /\ stack' = y.stack

\* the async function f returns (st = "resolved") or throws v (st = "rejected").
Settle(f, st, v) ==
  LET y == Yield([frames EXCEPT ![f].status = st, ![f].val = v, ![f].pc = "done"],
                 SubSeq(Stk(f), 1, Len(Stk(f)) - 1))
  IN /\ frames' = y.frames
     /\ stack' = y.stack

\* f goes on at pc, with loop index i (handleError) or attempts n unchanged
Goto(f, pc, i) ==
  /\ frames' = [frames EXCEPT ![f].pc = pc, ![f].i = i, ![f].status = "running"]
  /\ stack' = Stk(f)

\* f goes on with its next statement
Advance(f) ==
  /\ frames' = [frames EXCEPT ![f].ip = @ + 1, ![f].pc = "start", ![f].status = "running"]
  /\ stack' = Stk(f)

\* f was suspended in an await and the promise it awaits has settled: on an
\* empty stack f is resumed.
Resumed(f, kind) ==
  /\ stack = <<>>
  /\ frames[f].r = cur
  /\ frames[f].kind = kind
  /\ frames[f].status = "suspended"
  /\ Settled(frames[f].wait)

ResumedOp(f, op) ==
  /\ stack = <<>>
  /\ frames[f].r = cur
  /\ frames[f].kind \in {"mw", "handler"}
  /\ frames[f].status = "suspended"
  /\ Settled(frames[f].wait)
  /\ Op(f) = op

\* const context = { request: requestConfig, error: undefined, response: undefined }
NewContext(req) == [request |-> req, response |-> None, error |-> None, errorHandled |-> FALSE]

(***************************************************************************)
(* Init: a freshly constructed client, nothing registered.                 *)
(***************************************************************************)
Fresh ==
  /\ middleware = <<>>
  /\ errorHandlers = <<>>
  /\ context = NewContext(None)
  /\ index = -1
  /\ frames = <<>>
  /\ stack = <<>>
  /\ trace = <<>>
  /\ calls = 0
  /\ phase = "config"
  /\ cur = 1
  /\ parked = <<>>
  /\ taskPromise = <<>>
  /\ taskHandle = None
  /\ interceptors = <<>>
  /\ arrays = <<>>

\* new Echo(): options = {}
Init ==
  /\ Fresh
  /\ defaultOptions = NoOptions
  /\ wx = "available"

(***************************************************************************)
(* Registration.                                                           *)
(***************************************************************************)
\* a plausible slip: unshift instead of push
UsePrepends(b) ==
  /\ phase = "config"
  /\ Len(middleware) < MaxMw
  /\ middleware' = <<b>> \o middleware
  /\ UNCHANGED <<errorHandlers, context, index, frames, stack, trace, calls, phase, cur, parked, tasks, others>>

Use(b) ==
  /\ phase = "config"
  /\ Len(middleware) < MaxMw
  /\ middleware' = Append(middleware, b)
  /\ UNCHANGED <<errorHandlers, context, index, frames, stack, trace, calls, phase, cur, parked, tasks, others>>

Catch(h) ==
  /\ phase = "config"
  /\ Len(errorHandlers) < MaxHandlers
  /\ errorHandlers' = Append(errorHandlers, h)
  /\ UNCHANGED <<middleware, context, index, frames, stack, trace, calls, phase, cur, parked, tasks, others>>

\* use(fn) and catch(fn) called by other code while the request is in flight
\* and nothing runs; the trace notes the cursor, resp. the handler's place
UseInFlight(b) ==
  /\ phase = "inflight"
  /\ stack = <<>>
  /\ ~Settled(1)
  /\ Cardinality(LateUses) < MaxLate
  /\ Len(middleware) < MaxMw
  /\ middleware' = Append(middleware, b)
  /\ trace' = Append(trace, <<"use", index>>)
  /\ UNCHANGED <<errorHandlers, context, index, frames, stack, calls, phase, cur, parked, tasks, others>>

CatchInFlight(h) ==
  /\ phase = "inflight"
  /\ stack = <<>>
  /\ ~Settled(1)
  /\ Cardinality(LateCatches) < MaxLate
  /\ Len(errorHandlers) < MaxHandlers
  /\ errorHandlers' = Append(errorHandlers, h)
  /\ trace' = Append(trace, <<"catch", Len(errorHandlers) + 1>>)
  /\ UNCHANGED <<middleware, context, index, frames, stack, calls, phase, cur, parked, tasks, others>>

(***************************************************************************)
(* Echo.request / executeRequest.                                          *)
(***************************************************************************)
\* request(url, data, options), reached directly (verb = "") or through a verb
\* shortcut: the context, the pending taskPromise, and executeRequest() is called
RequestWith(verb, url, options) ==
  /\ phase = "config"
  /\ phase' = "inflight"
  /\ context' = NewContext([url |-> url,
                            options |-> combineRequestOptions(defaultOptions, options)])
  /\ frames' = <<Frame("request", verb, 0, [url |-> url, options |-> options], "running")>>
  /\ stack' = <<1>>
  /\ taskPromise' = <<None>>
  /\ UNCHANGED <<middleware, errorHandlers, index, trace, calls, cur, parked, taskHandle, others>>

Request == RequestWith("", Path, NoOptions)

\* GET(url, data, options) ... OPTIONS(url, data, options)
Verb(V, url, options) == RequestWith(V, url, VerbOptions(options, V))

ExecuteRequest ==
  /\ At("request", "start")
  /\ CallFrom(Top, Frame("execute", "", 0, None, "running"))
  /\ UNCHANGED <<middleware, errorHandlers, context, index, trace, calls, phase, cur, parked, tasks, others>>

\* a plausible slip: errorHandled is not consulted
RequestOutcomeIgnoresFlag(ex) ==
  LET e == IF context.error = None /\ ex.status = "rejected" THEN ex.val ELSE context.error
  IN IF e # None
     THEN [status |-> "rejected", val |-> e, error |-> e]
     ELSE [status |-> "resolved", val |-> context.response, error |-> e]

\* a plausible slip: when execute returned normally the context is not inspected
RequestOutcomeTrustsExecute(ex) ==
  IF ex.status = "resolved"
  THEN [status |-> "resolved", val |-> context.response, error |-> context.error]
  ELSE LET e == IF context.error = None THEN ex.val ELSE context.error
       IN IF ~context.errorHandled
          THEN [status |-> "rejected", val |-> e, error |-> e]
          ELSE [status |-> "resolved", val |-> context.response, error |-> e]

\* What executeRequest does once execute has settled.
RequestOutcome(ex) ==
  IF ex.status = "resolved"
  THEN IF context.error # None /\ ~context.errorHandled
       THEN [status |-> "rejected", val |-> context.error, error |-> context.error]
       ELSE [status |-> "resolved", val |-> context.response, error |-> context.error]
  ELSE LET e == IF context.error = None THEN ex.val ELSE context.error
       IN IF ~context.errorHandled
          THEN [status |-> "rejected", val |-> e, error |-> e]
          ELSE [status |-> "resolved", val |-> context.response, error |-> e]

\* a plausible slip: executeRequest().then(resolve) without .catch(reject)
RequestSettleNoReject(f) ==
  /\ Resumed(f, "request")
  /\ LET o == RequestOutcome(Awaited(f))
     IN /\ o.status = "resolved"
        /\ context' = [context EXCEPT !.error = o.error]
        /\ Settle(f, o.status, o.val)
  /\ UNCHANGED <<middleware, errorHandlers, index, trace, calls, phase, cur, parked, tasks, others>>

\* new Promise((resolve, reject) => executeRequest().then(resolve).catch(reject))
RequestSettle(f) ==
  /\ Resumed(f, "request")
  /\ LET o == RequestOutcome(Awaited(f))
     IN /\ context' = [context EXCEPT !.error = o.error]
        /\ Settle(f, o.status, o.val)
  /\ UNCHANGED <<middleware, errorHandlers, index, trace, calls, phase, cur, parked, tasks, others>>

(***************************************************************************)
(* Interceptor.execute and its closure dispatch.                           *)
(***************************************************************************)
Execute ==
  /\ At("execute", "start")
  /\ index' = -1
  /\ CallFrom(Top, Frame("dispatch", "", 0, None, "running"))
  /\ UNCHANGED <<middleware, errorHandlers, context, trace, calls, phase, cur, parked, tasks, others>>

\* a plausible slip: the top level lets the failure through without the handlers
ExecuteRethrows(f) ==
  /\ Resumed(f, "execute")
  /\ Awaited(f).kind = "dispatch"
  /\ Awaited(f).status = "rejected"
  /\ Settle(f, "rejected", Awaited(f).val)
  /\ UNCHANGED <<middleware, errorHandlers, context, index, trace, calls, phase, cur, parked, tasks, others>>

\* catch (err) { await this.handleError(err, context) } at the top level
ExecuteCatch(f) ==
  /\ Resumed(f, "execute")
  /\ Awaited(f).kind = "dispatch"
  /\ Awaited(f).status = "rejected"
  /\ CallFrom(f, Frame("handleError", "", 0, Awaited(f).val, "running"))
  /\ UNCHANGED <<middleware, errorHandlers, context, index, trace, calls, phase, cur, parked, tasks, others>>

\* return context
ExecuteReturn(f) ==
  /\ Resumed(f, "execute")
  /\ Awaited(f).status = "resolved"
  /\ Settle(f, "resolved", None)
  /\ trace' = Append(trace, <<"return", 0>>)
  /\ UNCHANGED <<middleware, errorHandlers, context, index, calls, phase, cur, parked, tasks, others>>

\* a plausible slip: the top-level catch swallows what handleError re-throws
ExecuteSwallows(f) ==
  /\ Resumed(f, "execute")
  /\ Awaited(f).kind = "handleError"
  /\ Awaited(f).status = "rejected"
  /\ Settle(f, "resolved", None)
  /\ trace' = Append(trace, <<"return", 0>>)
  /\ UNCHANGED <<middleware, errorHandlers, context, index, calls, phase, cur, parked, tasks, others>>

\* the top-level handleError re-threw: execute rejects
ExecuteThrow(f) ==
  /\ Resumed(f, "execute")
  /\ Awaited(f).kind = "handleError"
  /\ Awaited(f).status = "rejected"
  /\ Settle(f, "rejected", Awaited(f).val)
  /\ trace' = Append(trace, <<"throw", 0>>)
  /\ UNCHANGED <<middleware, errorHandlers, context, index, calls, phase, cur, parked, tasks, others>>

\* a plausible slip: the guard compares strictly
ReentrantStrict(i) == i < index

\* if (i <= index) throw new Error('next() called multiple times')
Reentrant(i) == i <= index

Dispatch ==
  /\ At("dispatch", "start")
  /\ LET i == frames[Top].i
     IN IF Reentrant(i)
        THEN /\ Settle(Top, "rejected", ReentrantNext)
             /\ index' = index
        ELSE /\ index' = i
             /\ IF FnAt(i) = ""
                THEN Settle(Top, "resolved", None)
                ELSE CallFrom(Top, Frame("mw", FnAt(i), i, None, "running"))
  /\ UNCHANGED <<middleware, errorHandlers, context, trace, calls, phase, cur, parked, tasks, others>>

\* a plausible slip: the frame lets the failure through to its caller
DispatchNoCatch(f) ==
  /\ Resumed(f, "dispatch")
  /\ Awaited(f).kind = "mw"
  /\ Awaited(f).status = "rejected"
  /\ Settle(f, "rejected", Awaited(f).val)
  /\ UNCHANGED <<middleware, errorHandlers, context, index, trace, calls, phase, cur, parked, tasks, others>>

\* catch (err) { return await this.handleError(err, context) } in the frame
DispatchCatch(f) ==
  /\ Resumed(f, "dispatch")
  /\ Awaited(f).kind = "mw"
  /\ Awaited(f).status = "rejected"
  /\ CallFrom(f, Frame("handleError", "", 0, Awaited(f).val, "running"))
  /\ UNCHANGED <<middleware, errorHandlers, context, index, trace, calls, phase, cur, parked, tasks, others>>

\* a plausible slip: an entry that returned without calling next falls through
DispatchFallsThrough(f) ==
  /\ Resumed(f, "dispatch")
  /\ Awaited(f).status = "resolved"
  /\ IF index = frames[f].i /\ FnAt(index + 1) # ""
     THEN CallFrom(f, Frame("dispatch", "", index + 1, None, "running"))
     ELSE Settle(f, "resolved", None)
  /\ UNCHANGED <<middleware, errorHandlers, context, index, trace, calls, phase, cur, parked, tasks, others>>

\* return await fn(context, next): the entry returned
DispatchReturn(f) ==
  /\ Resumed(f, "dispatch")
  /\ Awaited(f).status = "resolved"
  /\ Settle(f, "resolved", None)
  /\ UNCHANGED <<middleware, errorHandlers, context, index, trace, calls, phase, cur, parked, tasks, others>>

\* a plausible slip: the frame keeps to itself what handleError re-throws
DispatchSwallows(f) ==
  /\ Resumed(f, "dispatch")
  /\ Awaited(f).kind = "handleError"
  /\ Awaited(f).status = "rejected"
  /\ Settle(f, "resolved", None)
  /\ UNCHANGED <<middleware, errorHandlers, context, index, trace, calls, phase, cur, parked, tasks, others>>

\* return await this.handleError(err, context): handleError re-threw
DispatchThrow(f) ==
  /\ Resumed(f, "dispatch")
  /\ Awaited(f).kind = "handleError"
  /\ Awaited(f).status = "rejected"
  /\ Settle(f, "rejected", Awaited(f).val)
  /\ UNCHANGED <<middleware, errorHandlers, context, index, trace, calls, phase, cur, parked, tasks, others>>

(***************************************************************************)
(* Interceptor.handleError.                                                *)
(***************************************************************************)
\* if (this.errorHandlers.length === 0) throw err
NoHandlers == Len(errorHandlers) = 0

\* a plausible slip: the handler is handed context.error
HandlerArgCurrent(f) == context.error

\* handler(err as Error, context): the first argument
HandlerArg(f) == frames[f].arg

\* a plausible slip: the failure is re-thrown whatever the handlers did
AlwaysRethrow == TRUE

\* if (context.errorHandled !== true) throw context.error
MustRethrow == context.errorHandled # TRUE

\* a plausible slip: the original failure is re-thrown, not context.error
RethrownOriginal(f) == frames[f].arg

\* throw context.error
Rethrown(f) == context.error

\* a plausible slip: the loop stops after the first handler that returns
StopsAfterFirst == TRUE

\* if (context.errorHandled === true) break
StopPropagation == context.errorHandled = TRUE

\* a plausible slip: with no handler registered the failure is dropped
HandleErrorSilent ==
  /\ At("handleError", "start")
  /\ context' = [context EXCEPT !.error = frames[Top].arg]
  /\ IF NoHandlers
     THEN Settle(Top, "resolved", None)
     ELSE Goto(Top, "loop", 1)
  /\ UNCHANGED <<middleware, errorHandlers, index, trace, calls, phase, cur, parked, tasks, others>>

\* a plausible slip: each failure starts unclaimed
HandleErrorResets ==
  /\ At("handleError", "start")
  /\ context' = [context EXCEPT !.error = frames[Top].arg, !.errorHandled = FALSE]
  /\ IF NoHandlers
     THEN Settle(Top, "rejected", frames[Top].arg)
     ELSE Goto(Top, "loop", 1)
  /\ UNCHANGED <<middleware, errorHandlers, index, trace, calls, phase, cur, parked, tasks, others>>

HandleError ==
  /\ At("handleError", "start")
  /\ context' = [context EXCEPT !.error = frames[Top].arg]
  /\ IF NoHandlers
     THEN Settle(Top, "rejected", frames[Top].arg)
     ELSE Goto(Top, "loop", 1)
  /\ UNCHANGED <<middleware, errorHandlers, index, trace, calls, phase, cur, parked, tasks, others>>

\* a plausible slip: the handler is called but its promise is not awaited
HandleErrorLoopNoAwait ==
  /\ At("handleError", "loop")
  /\ LET j == frames[Top].i
     IN IF j <= Len(errorHandlers)
        THEN /\ frames' = Append([frames EXCEPT ![Top].i = @ + 1],
                                 Frame("handler", errorHandlers[j], j, HandlerArg(Top), "running"))
             /\ stack' = Append(stack, NewId)
             /\ trace' = Append(trace, <<"hstart", j>>)
        ELSE /\ Goto(Top, "after", j)
             /\ trace' = trace
  /\ UNCHANGED <<middleware, errorHandlers, context, index, calls, phase, cur, parked, tasks, others>>

\* for (const handler of this.errorHandlers) { try { await handler(err, context)
HandleErrorLoop ==
  /\ At("handleError", "loop")
  /\ LET j == frames[Top].i
     IN IF j <= Len(errorHandlers)
        THEN /\ CallFrom(Top, Frame("handler", errorHandlers[j], j, HandlerArg(Top), "running"))
             /\ trace' = Append(trace, <<"hstart", j>>)
        ELSE /\ Goto(Top, "after", j)
             /\ trace' = trace
  /\ UNCHANGED <<middleware, errorHandlers, context, index, calls, phase, cur, parked, tasks, others>>

\* a plausible slip: the loop never breaks
HandleErrorNextNoBreak(f) ==
  /\ Resumed(f, "handleError")
  /\ Awaited(f).status = "resolved"
  /\ Goto(f, "loop", frames[f].i + 1)
  /\ UNCHANGED <<middleware, errorHandlers, context, index, trace, calls, phase, cur, parked, tasks, others>>

\* the handler returned: if (context.errorHandled === true) break
HandleErrorNext(f) ==
  /\ Resumed(f, "handleError")
  /\ Awaited(f).status = "resolved"
  /\ IF StopPropagation
     THEN Goto(f, "after", frames[f].i)
     ELSE Goto(f, "loop", frames[f].i + 1)
  /\ UNCHANGED <<middleware, errorHandlers, context, index, trace, calls, phase, cur, parked, tasks, others>>

\* a plausible slip: a handler that throws ends the loop
HandleErrorAborts(f) ==
  /\ Resumed(f, "handleError")
  /\ Awaited(f).status = "rejected"
  /\ context' = [context EXCEPT !.error = Awaited(f).val]
  /\ Settle(f, "rejected", Awaited(f).val)
  /\ UNCHANGED <<middleware, errorHandlers, index, trace, calls, phase, cur, parked, tasks, others>>

\* catch (handlerError) { context.error = handlerError }
HandleErrorHandlerThrew(f) ==
  /\ Resumed(f, "handleError")
  /\ Awaited(f).status = "rejected"
  /\ context' = [context EXCEPT !.error = Awaited(f).val]
  /\ Goto(f, "loop", frames[f].i + 1)
  /\ UNCHANGED <<middleware, errorHandlers, index, trace, calls, phase, cur, parked, tasks, others>>

HandleErrorAfter ==
  /\ At("handleError", "after")
  /\ IF MustRethrow
     THEN Settle(Top, "rejected", Rethrown(Top))
     ELSE Settle(Top, "resolved", None)
  /\ UNCHANGED <<middleware, errorHandlers, context, index, trace, calls, phase, cur, parked, tasks, others>>

(***************************************************************************)
(* Middleware bodies, the core handler and error-handler bodies.           *)
(***************************************************************************)
\* the value a middleware (at chain index i) or a handler (j-th) throws
Thrown(f) == IF frames[f].kind = "handler" THEN HandlerError(frames[f].i) ELSE MwError(frames[f].i)

\* a handler's promise settles
HandlerEnd(f) == IF frames[f].kind = "handler" THEN Append(trace, <<"hend", frames[f].i>>) ELSE trace

\* the pre-next part of a middleware
MwEnter ==
  /\ AtOp("enter", "start")
  /\ trace' = Append(trace, <<"enter", frames[Top].i>>)
  /\ Advance(Top)
  /\ UNCHANGED <<middleware, errorHandlers, context, index, calls, phase, cur, parked, tasks, others>>

\* the post-next part of a middleware
MwExit ==
  /\ AtOp("exit", "start")
  /\ trace' = Append(trace, <<"exit", frames[Top].i>>)
  /\ Advance(Top)
  /\ UNCHANGED <<middleware, errorHandlers, context, index, calls, phase, cur, parked, tasks, others>>

\* ctx.response = ... without calling next
MwRespond ==
  /\ AtOp("respond", "start")
  /\ context' = [context EXCEPT !.response = MwResponse(frames[Top].i)]
  /\ Advance(Top)
  /\ UNCHANGED <<middleware, errorHandlers, index, trace, calls, phase, cur, parked, tasks, others>>

\* a plausible slip: the continuation skips an entry
NextIndexSkips(i) == i + 2

\* the next handed to entry i is () => dispatch(i + 1)
NextIndex(i) == i + 1

\* await next()
MwNext ==
  /\ AtOp("next", "start")
  /\ CallFrom(Top, Frame("dispatch", "", NextIndex(frames[Top].i), None, "running"))
  /\ UNCHANGED <<middleware, errorHandlers, context, index, trace, calls, phase, cur, parked, tasks, others>>

MwNextResolved(f) ==
  /\ ResumedOp(f, "next")
  /\ Awaited(f).status = "resolved"
  /\ Advance(f)
  /\ UNCHANGED <<middleware, errorHandlers, context, index, trace, calls, phase, cur, parked, tasks, others>>

\* a plausible slip: the post-next part runs whatever next() came to
MwNextRejectedRunsPost(f) ==
  /\ ResumedOp(f, "next")
  /\ Awaited(f).status = "rejected"
  /\ Advance(f)
  /\ UNCHANGED <<middleware, errorHandlers, context, index, trace, calls, phase, cur, parked, tasks, others>>

\* the awaited next() rejected and the middleware does not catch
MwNextRejected(f) ==
  /\ ResumedOp(f, "next")
  /\ Awaited(f).status = "rejected"
  /\ Settle(f, "rejected", Awaited(f).val)
  /\ UNCHANGED <<middleware, errorHandlers, context, index, trace, calls, phase, cur, parked, tasks, others>>

\* retryMiddleware: try { attempts++; await next() }
MwTryNext ==
  /\ AtOp("tryNext", "start")
  /\ frames' = Append([frames EXCEPT ![Top].pc = "wait", ![Top].wait = NewId, ![Top].n = @ + 1],
                      Frame("dispatch", "", NextIndex(frames[Top].i), None, "running"))
  /\ stack' = Append(stack, NewId)
  /\ UNCHANGED <<middleware, errorHandlers, context, index, trace, calls, phase, cur, parked, tasks, others>>

MwTryResolved(f) ==
  /\ ResumedOp(f, "tryNext")
  /\ Awaited(f).kind = "dispatch"
  /\ Awaited(f).status = "resolved"
  /\ Advance(f)
  /\ UNCHANGED <<middleware, errorHandlers, context, index, trace, calls, phase, cur, parked, tasks, others>>

\* catch (err) { if (attempts >= maxRetries) throw err; await delay; ...
MwTryCatch(f) ==
  /\ ResumedOp(f, "tryNext")
  /\ Awaited(f).kind = "dispatch"
  /\ Awaited(f).status = "rejected"
  /\ IF frames[f].n >= MaxRetries
     THEN Settle(f, "rejected", Awaited(f).val)
     ELSE AwaitNew(f, Frame("timer", "", 0, None, "pending"))
  /\ UNCHANGED <<middleware, errorHandlers, context, index, trace, calls, phase, cur, parked, tasks, others>>

\* ... return executeWithRetry() }
MwTryAgain(f) ==
  /\ ResumedOp(f, "tryNext")
  /\ Awaited(f).kind = "timer"
  /\ Goto(f, "start", frames[f].i)
  /\ UNCHANGED <<middleware, errorHandlers, context, index, trace, calls, phase, cur, parked, tasks, others>>

\* a middleware that swallows what next() rejects with: try { await next() } catch {}
MwCatchNext ==
  /\ AtOp("catchNext", "start")
  /\ CallFrom(Top, Frame("dispatch", "", NextIndex(frames[Top].i), None, "running"))
  /\ UNCHANGED <<middleware, errorHandlers, context, index, trace, calls, phase, cur, parked, tasks, others>>

MwCatchNextDone(f) ==
  /\ ResumedOp(f, "catchNext")
  /\ Advance(f)
  /\ UNCHANGED <<middleware, errorHandlers, context, index, trace, calls, phase, cur, parked, tasks, others>>

\* a middleware that writes the flag itself: ctx.errorHandled = true
MwClaim ==
  /\ AtOp("claim", "start")
  /\ context' = [context EXCEPT !.errorHandled = TRUE]
  /\ Advance(Top)
  /\ UNCHANGED <<middleware, errorHandlers, index, trace, calls, phase, cur, parked, tasks, others>>

\* the base URL that useBaseUrl was given
BaseOf(b) == IF b = "baseUrl/" THEN BaseSlash ELSE Base

\* the pre-next part of the middleware that useBaseUrl registers
MwPrefix ==
  /\ AtOp("prefix", "start")
  /\ context' = [context EXCEPT !.request.url = JoinBase(BaseOf(frames[Top].b), @)]
  /\ Advance(Top)
  /\ UNCHANGED <<middleware, errorHandlers, index, trace, calls, phase, cur, parked, tasks, others>>

\* next() without await: dispatch(i + 1) runs up to its first await, then the
\* middleware goes on while the rest of the chain is still in progress
MwCall ==
  /\ AtOp("call", "start")
  /\ frames' = Append([frames EXCEPT ![Top].pc = "called"],
                      Frame("dispatch", "", NextIndex(frames[Top].i), None, "running"))
  /\ stack' = Append(stack, NewId)
  /\ UNCHANGED <<middleware, errorHandlers, context, index, trace, calls, phase, cur, parked, tasks, others>>

\* the promise that next() returned is dropped
MwCalled ==
  /\ AtOp("call", "called")
  /\ Advance(Top)
  /\ UNCHANGED <<middleware, errorHandlers, context, index, trace, calls, phase, cur, parked, tasks, others>>

\* What the terminal hands to the transport: Echo's terminal the request of
\* the context, this.#request(ctx.request); the terminal of BreezeRequest the
\* requestConfig that its #fetch call built, this.#request(requestConfig).
Descriptor(m) ==
  IF frames[m].b = "core"
  THEN context.request
  ELSE frames[FetchOf(TerminalIndex(frames[m].b))].arg

\* a plausible slip: every call of setTask replaces the task delivered
taskResolverLatest(p, task) == task

\* taskResolver(task) resolves taskPromise, whose value is p (None while it
\* is pending): a promise keeps the first value it was resolved with
taskResolver(p, task) == IF p = None THEN task ELSE p

\* The transport hands over its task as soon as it has started the request:
\* Echo's setTask resolves the taskPromise of the call (a promise keeps its
\* first value), BreezeRequest's getTaskHandle assigns this.taskHandle.
SetTask(m, task) ==
  IF frames[m].b = "core"
  THEN /\ taskPromise' = [taskPromise EXCEPT ![cur] = taskResolver(@, task)]
       /\ taskHandle' = taskHandle
  ELSE /\ taskHandle' = task
       /\ taskPromise' = taskPromise

\* defaultRequest(config), the n-th call of the transport: the promise it
\* returns.  `wx?.request` of an undeclared wx throws in the executor, which
\* rejects the promise with the ReferenceError.
defaultRequest(n, config) ==
  CASE wx = "available" -> Frame("transport", "", n, config, "pending")
    [] wx = "undefined" -> [Frame("transport", "", n, config, "rejected") EXCEPT !.val = MissingWx]
    [] OTHER            -> [Frame("transport", "", n, config, "rejected") EXCEPT !.val = ReferenceError]

\* if (setTask) setTask(requestTask), reached only after wx.request was called
InformTask(m, task) ==
  IF wx = "available" THEN SetTask(m, task) ELSE UNCHANGED tasks

\* a plausible slip: the terminal does not await the transport
CoreRequestNoAwait ==
  /\ AtOp("transport", "start")
  /\ calls' = calls + 1
  /\ trace' = Append(trace, <<"transport", calls + 1>>)
  /\ frames' = Append([frames EXCEPT ![Top].ip = @ + 1],
                      defaultRequest(calls + 1, Descriptor(Top)))
  /\ stack' = stack
  /\ InformTask(Top, Handle(calls + 1))
  /\ UNCHANGED <<middleware, errorHandlers, context, index, phase, cur, parked, others>>

\* ctx.response = await this.#request(ctx.request): the transport is invoked
CoreRequest ==
  /\ AtOp("transport", "start")
  /\ calls' = calls + 1
  /\ trace' = Append(trace, <<"transport", calls + 1>>)
  /\ AwaitNew(Top, defaultRequest(calls + 1, Descriptor(Top)))
  /\ InformTask(Top, Handle(calls + 1))
  /\ UNCHANGED <<middleware, errorHandlers, context, index, phase, cur, parked, others>>

\* the tasks that a transport hands to setTask when, invoked as the n-th
\* call, it calls setTask k times
TasksOf(n, k) == [j \in 1..k |-> Handle(n + j - 1)]

RECURSIVE SetTaskEach(_, _)
SetTaskEach(p, ts) ==
  IF ts = <<>> THEN p ELSE SetTaskEach(taskResolver(p, Head(ts)), Tail(ts))

\* ctx.response = await this.#request(ctx.request) where #request is a
\* requestCustom given to the constructor that calls config.setTask k times
\* before it returns its promise
CustomRequest(k) ==
  /\ AtOp("transport", "start")
  /\ frames[Top].b = "core"
  /\ calls' = calls + 1
  /\ trace' = Append(trace, <<"transport", calls + 1>>)
  /\ AwaitNew(Top, [Frame("transport", "", calls + 1, Descriptor(Top), "pending") EXCEPT !.n = k])
  /\ taskPromise' = [taskPromise EXCEPT ![cur] = SetTaskEach(@, TasksOf(calls + 1, k))]
  /\ UNCHANGED <<middleware, errorHandlers, context, index, phase, cur, parked, taskHandle, others>>

CoreResponse(f) ==
  /\ ResumedOp(f, "transport")
  /\ Awaited(f).status = "resolved"
  /\ context' = [context EXCEPT !.response = Awaited(f).val]
  /\ Advance(f)
  /\ UNCHANGED <<middleware, errorHandlers, index, trace, calls, phase, cur, parked, tasks, others>>

\* a plausible slip: the terminal swallows the transport's rejection
CoreFailureSwallows(f) ==
  /\ ResumedOp(f, "transport")
  /\ Awaited(f).status = "rejected"
  /\ Advance(f)
  /\ UNCHANGED <<middleware, errorHandlers, context, index, trace, calls, phase, cur, parked, tasks, others>>

\* the awaited transport call rejected: the terminal does not catch
CoreFailure(f) ==
  /\ ResumedOp(f, "transport")
  /\ Awaited(f).status = "rejected"
  /\ Settle(f, "rejected", Awaited(f).val)
  /\ UNCHANGED <<middleware, errorHandlers, context, index, trace, calls, phase, cur, parked, tasks, others>>

\* a handler that recovers: ctx.errorHandled = true; ctx.response = ...
HandlerRecover ==
  /\ AtOp("mark", "start")
  /\ context' = [context EXCEPT !.errorHandled = TRUE, !.response = Recovery(frames[Top].i)]
  /\ Advance(Top)
  /\ UNCHANGED <<middleware, errorHandlers, index, trace, calls, phase, cur, parked, tasks, others>>

\* a handler that awaits some asynchronous work of its own
HandlerWork ==
  /\ AtOp("timer", "start")
  /\ AwaitNew(Top, Frame("timer", "", 0, None, "pending"))
  /\ UNCHANGED <<middleware, errorHandlers, context, index, trace, calls, phase, cur, parked, tasks, others>>

HandlerWorkDone(f) ==
  /\ ResumedOp(f, "timer")
  /\ Advance(f)
  /\ UNCHANGED <<middleware, errorHandlers, context, index, trace, calls, phase, cur, parked, tasks, others>>

\* a middleware or a handler throws
FnThrow ==
  /\ AtOp("throw", "start")
  /\ Settle(Top, "rejected", Thrown(Top))
  /\ trace' = HandlerEnd(Top)
  /\ UNCHANGED <<middleware, errorHandlers, context, index, calls, phase, cur, parked, tasks, others>>

\* a middleware or a handler returns
FnReturn ==
  /\ AtOp("end", "start")
  /\ Settle(Top, "resolved", None)
  /\ trace' = HandlerEnd(Top)
  /\ UNCHANGED <<middleware, errorHandlers, context, index, calls, phase, cur, parked, tasks, others>>

(***************************************************************************)
(* BreezeRequest.#fetch: the context, the terminal registered as a         *)
(* middleware, execute(context), return context.response.  Several calls   *)
(* may be in flight: `context` and `index` are those of the call that      *)
(* runs, the others are parked.                                            *)
(***************************************************************************)
Park == [context |-> context, index |-> index]

\* what #fetch puts in context.request and, as a second object, in the
\* requestConfig that its terminal hands to the transport
requestConfig == [url |-> Path, options |-> NoOptions]

Fetch ==
  /\ stack = <<>>
  /\ phase \in {"config", "breeze"}
  /\ Len(parked) < MaxFetch
  /\ LET r == Len(parked) + 1
     IN /\ phase' = "breeze"
        /\ cur' = r
        /\ parked' = Append(IF parked = <<>> THEN parked ELSE [parked EXCEPT ![cur] = Park],
                            [context |-> NewContext(requestConfig), index |-> -1])
        /\ context' = NewContext(requestConfig)
        /\ middleware' = Append(middleware, TerminalOf(r))
        /\ frames' = frames \o
             << [Frame("fetch", "", 0, requestConfig, "running") EXCEPT !.r = r, !.pc = "wait",
                                                                !.wait = NewId + 1],
                [Frame("execute", "", 0, None, "running") EXCEPT !.r = r] >>
        /\ stack' = <<NewId, NewId + 1>>
  /\ UNCHANGED <<errorHandlers, index, trace, calls, tasks, others>>

\* return context.response
FetchReturn(f) ==
  /\ Resumed(f, "fetch")
  /\ Awaited(f).status = "resolved"
  /\ Settle(f, "resolved", context.response)
  /\ UNCHANGED <<middleware, errorHandlers, context, index, trace, calls, phase, cur, parked, tasks, others>>

\* execute rejected: so does #fetch
FetchThrow(f) ==
  /\ Resumed(f, "fetch")
  /\ Awaited(f).status = "rejected"
  /\ Settle(f, "rejected", Awaited(f).val)
  /\ UNCHANGED <<middleware, errorHandlers, context, index, trace, calls, phase, cur, parked, tasks, others>>

\* a plausible slip: the cursor is a field of the interceptor, shared by the
\* calls in flight
SwitchSharingCursor(r) ==
  /\ stack = <<>>
  /\ r # cur
  /\ parked' = [parked EXCEPT ![cur] = Park]
  /\ context' = parked[r].context
  /\ index' = index
  /\ cur' = r
  /\ UNCHANGED <<middleware, errorHandlers, frames, stack, trace, calls, phase, tasks, others>>

\* a continuation of another call is about to run: its closure refers to its
\* own context and its own cursor
Switch(r) ==
  /\ stack = <<>>
  /\ r # cur
  /\ parked' = [parked EXCEPT ![cur] = Park]
  /\ context' = parked[r].context
  /\ index' = parked[r].index
  /\ cur' = r
  /\ UNCHANGED <<middleware, errorHandlers, frames, stack, trace, calls, phase, tasks, others>>

(***************************************************************************)
(* The environment: timers fire and the transport answers, between turns.  *)
(***************************************************************************)
TimerFire(t) ==
  /\ stack = <<>>
  /\ frames[t].kind = "timer"
  /\ frames[t].status = "pending"
  /\ frames' = [frames EXCEPT ![t].status = "resolved"]
  /\ UNCHANGED <<middleware, errorHandlers, context, index, stack, trace, calls, phase, cur, parked, tasks, others>>

TransportSucceed(t) ==
  /\ stack = <<>>
  /\ frames[t].kind = "transport"
  /\ frames[t].status = "pending"
  /\ frames' = [frames EXCEPT ![t].status = "resolved", ![t].val = TransportResponse(frames[t].i)]
  /\ UNCHANGED <<middleware, errorHandlers, context, index, stack, trace, calls, phase, cur, parked, tasks, others>>

TransportFail(t) ==
  /\ stack = <<>>
  /\ frames[t].kind = "transport"
  /\ frames[t].status = "pending"
  /\ frames' = [frames EXCEPT ![t].status = "rejected", ![t].val = TransportError(frames[t].i)]
  /\ UNCHANGED <<middleware, errorHandlers, context, index, stack, trace, calls, phase, cur, parked, tasks, others>>

\* The caller got the task of the pending transport call from getTask() and
\* calls task.abort(): the transport reports the failure 'request:fail abort'.
Abort(t) ==
  /\ stack = <<>>
  /\ phase = "inflight"
  /\ frames[t].kind = "transport"
  /\ frames[t].status = "pending"
  /\ taskPromise[frames[t].r] = Handle(frames[t].i)
  /\ frames' = [frames EXCEPT ![t].status = "rejected", ![t].val = AbortFailure(frames[t].i)]
  /\ UNCHANGED <<middleware, errorHandlers, context, index, stack, trace, calls, phase, cur, parked, tasks, others>>

(***************************************************************************)
(* Specification.                                                          *)
(***************************************************************************)
\* the frames that may be resumed, and the promises the environment may settle:
\* both only between turns, when nothing runs
Waiting == IF stack = <<>> THEN {f \in DOMAIN frames : frames[f].status = "suspended"} ELSE {}
Pending == IF stack = <<>> THEN {f \in DOMAIN frames : frames[f].status = "pending"} ELSE {}
\* the requests that have a continuation ready to run
Ready == {frames[f].r : f \in {g \in Waiting : Settled(frames[g].wait)}}

Next ==
  \/ \E b \in MwKinds : Use(b)
  \/ \E h \in HandlerKinds : Catch(h)
  \/ Request
  \/ ExecuteRequest
  \/ Execute
  \/ Dispatch
  \/ HandleError
  \/ HandleErrorLoop
  \/ HandleErrorAfter
  \/ MwEnter
  \/ MwExit
  \/ MwRespond
  \/ MwNext
  \/ MwTryNext
  \/ CoreRequest
  \/ HandlerRecover
  \/ HandlerWork
  \/ FnThrow
  \/ FnReturn
  \/ \E t \in Pending : TimerFire(t)
  \/ \E t \in Pending : TransportSucceed(t)
  \/ \E t \in Pending : TransportFail(t)
  \/ \E f \in Waiting :
       \/ RequestSettle(f)
       \/ ExecuteCatch(f)
       \/ ExecuteReturn(f)
       \/ ExecuteThrow(f)
       \/ DispatchCatch(f)
       \/ DispatchReturn(f)
       \/ DispatchThrow(f)
       \/ HandleErrorNext(f)
       \/ HandleErrorHandlerThrew(f)
       \/ MwNextResolved(f)
       \/ MwNextRejected(f)
       \/ MwTryResolved(f)
       \/ MwTryCatch(f)
       \/ MwTryAgain(f)
       \/ CoreResponse(f)
       \/ CoreFailure(f)
       \/ HandlerWorkDone(f)

Spec == Init /\ [][Next]_vars

(***************************************************************************)
(* A fair run: the event loop runs every continuation that is ready, and   *)
(* the promises of the environment (timers, the transport) settle.         *)
(***************************************************************************)
LiveMw == {"onion", "retry", "throwPost"}

NextLive ==
  \/ \E b \in LiveMw : Use(b)
  \/ \E h \in {"recover", "pass"} : Catch(h)
  \/ Request
  \/ ExecuteRequest
  \/ Execute
  \/ Dispatch
  \/ HandleError
  \/ HandleErrorLoop
  \/ HandleErrorAfter
  \/ MwEnter
  \/ MwExit
  \/ MwNext
  \/ MwTryNext
  \/ CoreRequest
  \/ HandlerRecover
  \/ HandlerWork
  \/ FnThrow
  \/ FnReturn
  \/ \E t \in Pending : TimerFire(t)
  \/ \E t \in Pending : TransportSucceed(t)
  \/ \E t \in Pending : TransportFail(t)
  \/ \E f \in Waiting :
       \/ RequestSettle(f)
       \/ ExecuteCatch(f)
       \/ ExecuteReturn(f)
       \/ ExecuteThrow(f)
       \/ DispatchCatch(f)
       \/ DispatchReturn(f)
       \/ DispatchThrow(f)
       \/ HandleErrorNext(f)
       \/ MwNextResolved(f)
       \/ MwNextRejected(f)
       \/ MwTryResolved(f)
       \/ MwTryCatch(f)
       \/ MwTryAgain(f)
       \/ CoreResponse(f)
       \/ CoreFailure(f)
       \/ HandlerWorkDone(f)

SpecLive == Init /\ [][NextLive]_vars /\ WF_vars(phase = "inflight" /\ NextLive)

(***************************************************************************)
(* The error path in full: middleware that pass control on or throw, and   *)
(* every kind of error handler, among them one that marks the failure as   *)
(* handled and then throws.                                                *)
(***************************************************************************)
FailingMw == {"onion", "throwPre", "throwPost"}
AllHandlerKinds == HandlerKinds \cup {"markFail"}

NextErr ==
  \/ \E b \in FailingMw : Use(b)
  \/ \E h \in AllHandlerKinds : Catch(h)
  \/ Request
  \/ ExecuteRequest
  \/ Execute
  \/ Dispatch
  \/ HandleError
  \/ HandleErrorLoop
  \/ HandleErrorAfter
  \/ MwEnter
  \/ MwExit
  \/ MwNext
  \/ CoreRequest
  \/ HandlerRecover
  \/ HandlerWork
  \/ FnThrow
  \/ FnReturn
  \/ \E t \in Pending : TimerFire(t)
  \/ \E t \in Pending : TransportSucceed(t)
  \/ \E t \in Pending : TransportFail(t)
  \/ \E f \in Waiting :
       \/ RequestSettle(f)
       \/ ExecuteCatch(f)
       \/ ExecuteReturn(f)
       \/ ExecuteThrow(f)
       \/ DispatchCatch(f)
       \/ DispatchReturn(f)
       \/ DispatchThrow(f)
       \/ HandleErrorNext(f)
       \/ HandleErrorHandlerThrew(f)
       \/ MwNextResolved(f)
       \/ MwNextRejected(f)
       \/ CoreResponse(f)
       \/ CoreFailure(f)
       \/ HandlerWorkDone(f)

SpecErr == Init /\ [][NextErr]_vars

(***************************************************************************)
(* The outcome of a request: middleware that fail, swallow what next()     *)
(* rejects with or write the context's flag themselves, and handlers that  *)
(* recover or do not.                                                      *)
(***************************************************************************)
OutcomeMw == {"onion", "throwPre", "swallow", "markThrow"}
QuietHandlers == {"recover", "pass"}

NextOutcome ==
  \/ \E b \in OutcomeMw : Use(b)
  \/ \E h \in QuietHandlers : Catch(h)
  \/ Request
  \/ ExecuteRequest
  \/ Execute
  \/ Dispatch
  \/ HandleError
  \/ HandleErrorLoop
  \/ HandleErrorAfter
  \/ MwEnter
  \/ MwExit
  \/ MwNext
  \/ MwCatchNext
  \/ MwClaim
  \/ CoreRequest
  \/ HandlerRecover
  \/ HandlerWork
  \/ FnThrow
  \/ FnReturn
  \/ \E t \in Pending : TimerFire(t)
  \/ \E t \in Pending : TransportSucceed(t)
  \/ \E t \in Pending : TransportFail(t)
  \/ \E f \in Waiting :
       \/ RequestSettle(f)
       \/ ExecuteCatch(f)
       \/ ExecuteReturn(f)
       \/ ExecuteThrow(f)
       \/ DispatchCatch(f)
       \/ DispatchReturn(f)
       \/ DispatchThrow(f)
       \/ HandleErrorNext(f)
       \/ MwNextResolved(f)
       \/ MwNextRejected(f)
       \/ MwCatchNextDone(f)
       \/ CoreResponse(f)
       \/ CoreFailure(f)
       \/ HandlerWorkDone(f)

SpecOutcome == Init /\ [][NextOutcome]_vars

(***************************************************************************)
(* A BreezeRequest client: middleware registered first, then up to         *)
(* MaxFetch calls that may overlap.  Promise reactions run before the      *)
(* environment delivers anything else.                                     *)
(***************************************************************************)
FetchMw == {"onion", "slow", "baseUrl"}
Quiet == IF Ready = {} THEN Pending ELSE {}

NextFetch ==
  \/ \E b \in FetchMw : Use(b)
  \/ Fetch
  \/ \E r \in Ready : Switch(r)
  \/ Execute
  \/ Dispatch
  \/ HandleError
  \/ MwEnter
  \/ MwPrefix
  \/ MwExit
  \/ MwNext
  \/ CoreRequest
  \/ HandlerWork
  \/ FnReturn
  \/ \E t \in Quiet : TimerFire(t)
  \/ \E t \in Quiet : TransportSucceed(t)
  \/ \E t \in Quiet : TransportFail(t)
  \/ \E f \in Waiting :
       \/ FetchReturn(f)
       \/ FetchThrow(f)
       \/ ExecuteCatch(f)
       \/ ExecuteReturn(f)
       \/ ExecuteThrow(f)
       \/ DispatchCatch(f)
       \/ DispatchReturn(f)
       \/ DispatchThrow(f)
       \/ MwNextResolved(f)
       \/ MwNextRejected(f)
       \/ CoreResponse(f)
       \/ CoreFailure(f)
       \/ HandlerWorkDone(f)

SpecFetch == Init /\ [][NextFetch]_vars
(***************************************************************************)
(* The same client with middleware that call next() a second time, over a  *)
(* transport that answers.  A call is issued when every call but the       *)
(* latest has settled, so that calls overlap two at a time.                *)
(***************************************************************************)
CursorMw == {"twice"}
Earlier == {f \in DOMAIN frames : frames[f].kind = "fetch" /\ frames[f].r < Len(parked)}

NextCursor ==
  \/ \E b \in CursorMw : Use(b)
  \/ (\A f \in Earlier : Settled(f)) /\ Fetch
  \/ \E r \in Ready : Switch(r)
  \/ Execute
  \/ Dispatch
  \/ HandleError
  \/ MwEnter
  \/ MwNext
  \/ CoreRequest
  \/ FnReturn
  \/ \E t \in Quiet : TransportSucceed(t)
  \/ \E f \in Waiting :
       \/ FetchReturn(f)
       \/ FetchThrow(f)
       \/ ExecuteCatch(f)
       \/ ExecuteReturn(f)
       \/ ExecuteThrow(f)
       \/ DispatchCatch(f)
       \/ DispatchReturn(f)
       \/ DispatchThrow(f)
       \/ MwNextResolved(f)
       \/ MwNextRejected(f)
       \/ CoreResponse(f)

SpecCursor == Init /\ [][NextCursor]_vars


(***************************************************************************)
(* Middleware as the README allows them: `await next()` or plain `next()`. *)
(***************************************************************************)
PlainMw == {"onion", "plain", "throwPre"}

NextPlain ==
  \/ \E b \in PlainMw : Use(b)
  \/ Catch("recover")
  \/ Request
  \/ ExecuteRequest
  \/ Execute
  \/ Dispatch
  \/ HandleError
  \/ HandleErrorLoop
  \/ HandleErrorAfter
  \/ MwEnter
  \/ MwExit
  \/ MwNext
  \/ MwCall
  \/ MwCalled
  \/ CoreRequest
  \/ HandlerRecover
  \/ FnThrow
  \/ FnReturn
  \/ \E t \in Pending : TransportSucceed(t)
  \/ \E t \in Pending : TransportFail(t)
  \/ \E f \in Waiting :
       \/ RequestSettle(f)
       \/ ExecuteCatch(f)
       \/ ExecuteReturn(f)
       \/ ExecuteThrow(f)
       \/ DispatchCatch(f)
       \/ DispatchReturn(f)
       \/ DispatchThrow(f)
       \/ HandleErrorNext(f)
       \/ MwNextResolved(f)
       \/ MwNextRejected(f)
       \/ CoreResponse(f)
       \/ CoreFailure(f)

SpecPlain == Init /\ [][NextPlain]_vars

(***************************************************************************)
(* Middleware that call next() a second time, awaiting it bare or inside a *)
(* try/catch of their own.                                                 *)
(***************************************************************************)
ReentrantMw == {"onion", "twice", "again"}

NextReentrant ==
  \/ \E b \in ReentrantMw : Use(b)
  \/ \E h \in QuietHandlers : Catch(h)
  \/ Request
  \/ ExecuteRequest
  \/ Execute
  \/ Dispatch
  \/ HandleError
  \/ HandleErrorLoop
  \/ HandleErrorAfter
  \/ MwEnter
  \/ MwExit
  \/ MwNext
  \/ MwCatchNext
  \/ CoreRequest
  \/ HandlerRecover
  \/ HandlerWork
  \/ FnReturn
  \/ \E t \in Pending : TimerFire(t)
  \/ \E t \in Pending : TransportSucceed(t)
  \/ \E t \in Pending : TransportFail(t)
  \/ \E f \in Waiting :
       \/ RequestSettle(f)
       \/ ExecuteCatch(f)
       \/ ExecuteReturn(f)
       \/ ExecuteThrow(f)
       \/ DispatchCatch(f)
       \/ DispatchReturn(f)
       \/ DispatchThrow(f)
       \/ HandleErrorNext(f)
       \/ MwNextResolved(f)
       \/ MwNextRejected(f)
       \/ MwCatchNextDone(f)
       \/ CoreResponse(f)
       \/ CoreFailure(f)
       \/ HandlerWorkDone(f)

SpecReentrant == Init /\ [][NextReentrant]_vars

(***************************************************************************)
(* A request whose caller may abort it through the task of getTask().      *)
(***************************************************************************)
TaskMw == {"onion", "short"}

NextTask ==
  \/ \E b \in TaskMw : Use(b)
  \/ \E h \in QuietHandlers : Catch(h)
  \/ Request
  \/ ExecuteRequest
  \/ Execute
  \/ Dispatch
  \/ HandleError
  \/ HandleErrorLoop
  \/ HandleErrorAfter
  \/ MwEnter
  \/ MwExit
  \/ MwRespond
  \/ MwNext
  \/ CoreRequest
  \/ HandlerRecover
  \/ HandlerWork
  \/ FnReturn
  \/ \E t \in Pending : TimerFire(t)
  \/ \E t \in Pending : TransportSucceed(t)
  \/ \E t \in Pending : TransportFail(t)
  \/ \E t \in Pending : Abort(t)
  \/ \E f \in Waiting :
       \/ RequestSettle(f)
       \/ ExecuteCatch(f)
       \/ ExecuteReturn(f)
       \/ ExecuteThrow(f)
       \/ DispatchCatch(f)
       \/ DispatchReturn(f)
       \/ DispatchThrow(f)
       \/ HandleErrorNext(f)
       \/ MwNextResolved(f)
       \/ MwNextRejected(f)
       \/ CoreResponse(f)
       \/ CoreFailure(f)
       \/ HandlerWorkDone(f)

SpecTask == Init /\ [][NextTask]_vars

(***************************************************************************)
(* A client built over a transport of the caller's, which calls setTask    *)
(* any number of times, under middleware that reach the terminal, answer   *)
(* themselves or throw.                                                    *)
(***************************************************************************)
HandleMw == {"onion", "short", "throwPre"}

NextHandle ==
  \/ \E b \in HandleMw : Use(b)
  \/ Catch("recover")
  \/ Request
  \/ ExecuteRequest
  \/ Execute
  \/ Dispatch
  \/ HandleError
  \/ HandleErrorLoop
  \/ HandleErrorAfter
  \/ MwEnter
  \/ MwExit
  \/ MwRespond
  \/ MwNext
  \/ \E k \in 0..MaxSetTask : CustomRequest(k)
  \/ HandlerRecover
  \/ FnThrow
  \/ FnReturn
  \/ \E t \in Pending : TransportSucceed(t)
  \/ \E t \in Pending : TransportFail(t)
  \/ \E f \in Waiting :
       \/ RequestSettle(f)
       \/ ExecuteCatch(f)
       \/ ExecuteReturn(f)
       \/ ExecuteThrow(f)
       \/ DispatchCatch(f)
       \/ DispatchReturn(f)
       \/ DispatchThrow(f)
       \/ HandleErrorNext(f)
       \/ MwNextResolved(f)
       \/ MwNextRejected(f)
       \/ CoreResponse(f)
       \/ CoreFailure(f)

SpecHandle == Init /\ [][NextHandle]_vars

\* use and catch are also called while the request is in flight
LateMw == {"slow", "short"}

NextLate ==
  \/ \E b \in LateMw : Use(b)
  \/ Catch("pass")
  \/ UseInFlight("onion")
  \/ CatchInFlight("pass")
  \/ Request
  \/ ExecuteRequest
  \/ Execute
  \/ Dispatch
  \/ HandleError
  \/ HandleErrorLoop
  \/ HandleErrorAfter
  \/ MwEnter
  \/ MwExit
  \/ MwRespond
  \/ MwNext
  \/ CoreRequest
  \/ HandlerWork
  \/ FnReturn
  \/ \E t \in Pending : TimerFire(t)
  \/ \E t \in Pending : TransportSucceed(t)
  \/ \E t \in Pending : TransportFail(t)
  \/ \E f \in Waiting :
       \/ RequestSettle(f)
       \/ ExecuteCatch(f)
       \/ ExecuteReturn(f)
       \/ ExecuteThrow(f)
       \/ DispatchCatch(f)
       \/ DispatchReturn(f)
       \/ DispatchThrow(f)
       \/ HandleErrorNext(f)
       \/ MwNextResolved(f)
       \/ MwNextRejected(f)
       \/ CoreResponse(f)
       \/ CoreFailure(f)
       \/ HandlerWorkDone(f)

SpecLate == Init /\ [][NextLate]_vars

\* the same client in an environment with or without wx.request
InitPlatform ==
  /\ Fresh
  /\ defaultOptions = NoOptions
  /\ wx \in Platforms

SpecPlatform == InitPlatform /\ [][NextTask]_vars

(***************************************************************************)
(* An Echo client constructed with default options and possibly a base URL *)
(* middleware; one request, issued through request() or a verb shortcut,   *)
(* with call-site options.                                                 *)
(***************************************************************************)
HeaderChoices(v) ==
  {AbsentHeaders, [NoHeaders EXCEPT !.Accept = v], [NoHeaders EXCEPT !.Accept = v, !.Token = v]}
OptionChoices(m, v) ==
  {[NoOptions EXCEPT !.method = mm, !.headers = h, !.timeout = x, !.dataType = x] :
     mm \in {Absent, m}, h \in HeaderChoices(v), x \in {Absent, v}}
DefaultChoices == OptionChoices("POST", "default")
CallChoices == OptionChoices("PUT", "call")
Urls == {Path, BarePath, Absolute}

\* new Echo(options)
InitOptions ==
  /\ Fresh
  /\ defaultOptions \in DefaultChoices
  /\ wx = "available"

NextOptions ==
  \/ \E b \in {"baseUrl", "baseUrl/"} : Use(b)
  \/ \E url \in Urls : RequestWith("", url, NoOptions)
  \/ \E o \in CallChoices : RequestWith("", Path, o)
  \/ \E V \in Verbs, o \in CallChoices : Verb(V, Path, o)
  \/ ExecuteRequest
  \/ Execute
  \/ Dispatch
  \/ MwPrefix
  \/ MwNext
  \/ CoreRequest
  \/ FnReturn
  \/ \E t \in Pending : TransportSucceed(t)
  \/ \E f \in Waiting :
       \/ RequestSettle(f)
       \/ ExecuteReturn(f)
       \/ DispatchReturn(f)
       \/ MwNextResolved(f)
       \/ CoreResponse(f)

SpecOptions == InitOptions /\ [][NextOptions]_vars

(***************************************************************************)
(* Interceptor.compose.  Interceptor instances other than the client's own *)
(* live on a heap: `arrays` holds every array, `interceptors` the          *)
(* instances, whose middleware and errorHandlers fields are references     *)
(* into `arrays`.  The field `of` records how the instance was made: the   *)
(* arguments of the compose call, or <<>> for new Interceptor().           *)
(***************************************************************************)
Heap == [interceptors |-> interceptors, arrays |-> arrays]
MiddlewareIn(h, d) == h.arrays[h.interceptors[d].middleware]
ErrorHandlersIn(h, d) == h.arrays[h.interceptors[d].errorHandlers]
MiddlewareOf(d) == MiddlewareIn(Heap, d)
ErrorHandlersOf(d) == ErrorHandlersIn(Heap, d)

\* new Interceptor(): two fresh empty arrays
New(h, ds) ==
  [interceptors |-> Append(h.interceptors,
                           [middleware |-> Len(h.arrays) + 1,
                            errorHandlers |-> Len(h.arrays) + 2,
                            of |-> ds]),
   arrays |-> h.arrays \o <<<<>>, <<>>>>]

\* d.use(fn) and d.catch(fn): push onto the array the field refers to
use(h, d, fn) == [h EXCEPT !.arrays[h.interceptors[d].middleware] = Append(@, fn)]
catch(h, d, fn) == [h EXCEPT !.arrays[h.interceptors[d].errorHandlers] = Append(@, fn)]

RECURSIVE UseEach(_, _, _, _, _)
RECURSIVE CatchEach(_, _, _, _, _)
RECURSIVE ComposeEach(_, _, _, _)

\* interceptor.middleware.forEach(fn => composed.use(fn)), from element k on;
\* forEach visits the n elements the array had when the loop began
UseEach(h, c, d, k, n) ==
  IF k > n THEN h
  ELSE UseEach(use(h, c, MiddlewareIn(h, d)[k]), c, d, k + 1, n)

\* a plausible slip: the handlers are registered with use
CatchEachUses(h, c, d, k, n) ==
  IF k > n THEN h
  ELSE CatchEach(use(h, c, ErrorHandlersIn(h, d)[k]), c, d, k + 1, n)

\* interceptor.errorHandlers.forEach(fn => composed.catch(fn))
CatchEach(h, c, d, k, n) ==
  IF k > n THEN h
  ELSE CatchEach(catch(h, c, ErrorHandlersIn(h, d)[k]), c, d, k + 1, n)

\* interceptors.forEach(interceptor => { ... }), from argument j on
ComposeEach(h, c, ds, j) ==
  IF j > Len(ds) THEN h
  ELSE LET d == ds[j]
           h1 == UseEach(h, c, d, 1, Len(MiddlewareIn(h, d)))
           h2 == CatchEach(h1, c, d, 1, Len(ErrorHandlersIn(h1, d)))
       IN ComposeEach(h2, c, ds, j + 1)

\* a plausible slip: the composed instance starts from the first argument's
\* arrays instead of fresh ones
ComposeSharing(h, ds) ==
  LET h0 == [h EXCEPT !.interceptors =
                        Append(@, [middleware |-> h.interceptors[ds[1]].middleware,
                                   errorHandlers |-> h.interceptors[ds[1]].errorHandlers,
                                   of |-> ds])]
  IN ComposeEach(h0, Len(h0.interceptors), ds, 2)

\* Interceptor.compose(...interceptors)
compose(h, ds) ==
  LET h0 == New(h, ds)
  IN ComposeEach(h0, Len(h0.interceptors), ds, 1)

\* the number of elements of all the arrays of h
RECURSIVE EntriesFrom(_, _)
EntriesFrom(h, k) ==
  IF k > Len(h.arrays) THEN 0 ELSE Len(h.arrays[k]) + EntriesFrom(h, k + 1)
Entries(h) == EntriesFrom(h, 1)

\* the argument lists compose is called with: existing instances, each at
\* most once
RECURSIVE Arrangements(_)
Arrangements(S) ==
  {<<>>} \cup UNION {{<<d>> \o ds : ds \in Arrangements(S \ {d})} : d \in S}
Arguments == Arrangements(DOMAIN interceptors) \ {<<>>}

NewInterceptor ==
  /\ phase = "config"
  /\ Len(interceptors) < MaxInterceptors
  /\ interceptors' = New(Heap, <<>>).interceptors
  /\ arrays' = New(Heap, <<>>).arrays
  /\ UNCHANGED <<middleware, errorHandlers, context, index, frames, stack, trace, calls, phase, cur, parked, tasks, defaultOptions, wx>>

UseOn(d, b) ==
  /\ phase = "config"
  /\ Entries(Heap) < MaxEntries
  /\ arrays' = use(Heap, d, b).arrays
  /\ UNCHANGED <<middleware, errorHandlers, context, index, frames, stack, trace, calls, phase, cur, parked, tasks, defaultOptions, interceptors, wx>>

CatchOn(d, fn) ==
  /\ phase = "config"
  /\ Entries(Heap) < MaxEntries
  /\ arrays' = catch(Heap, d, fn).arrays
  /\ UNCHANGED <<middleware, errorHandlers, context, index, frames, stack, trace, calls, phase, cur, parked, tasks, defaultOptions, interceptors, wx>>

Compose ==
  /\ phase = "config"
  /\ Len(interceptors) < MaxInterceptors
  /\ \E ds \in Arguments :
       LET h == compose(Heap, ds)
       IN /\ Entries(h) <= MaxEntries
          /\ interceptors' = h.interceptors
          /\ arrays' = h.arrays
  /\ UNCHANGED <<middleware, errorHandlers, context, index, frames, stack, trace, calls, phase, cur, parked, tasks, defaultOptions, wx>>

\* a request whose pipeline is instance d: execute reads this.middleware and
\* this.errorHandlers of d
ExecuteOn(d) ==
  /\ phase = "config"
  /\ phase' = "inflight"
  /\ middleware' = MiddlewareOf(d)
  /\ errorHandlers' = ErrorHandlersOf(d)
  /\ context' = NewContext([url |-> Path,
                            options |-> combineRequestOptions(defaultOptions, NoOptions)])
  /\ frames' = <<Frame("request", "", 0, [url |-> Path, options |-> NoOptions, on |-> d], "running")>>
  /\ stack' = <<1>>
  /\ taskPromise' = <<None>>
  /\ UNCHANGED <<index, trace, calls, cur, parked, taskHandle, others>>

\* the instances made by compose
Composed == {d \in DOMAIN interceptors : interceptors[d].of # <<>>}

ComposeMw == {"onion", "baseUrl"}
ComposeHandlers == {"recover"}

\* instances are built, composed and used further
NextSnapshot ==
  \/ NewInterceptor
  \/ \E d \in DOMAIN interceptors : UseOn(d, "onion")
  \/ \E d \in DOMAIN interceptors : CatchOn(d, "recover")
  \/ Compose

SpecSnapshot == Init /\ [][NextSnapshot]_vars

\* instances are built, then composed, and a composed one serves a request
NextCompose ==
  \/ Composed = {} /\ NewInterceptor
  \/ \E d \in DOMAIN interceptors, b \in ComposeMw : Composed = {} /\ UseOn(d, b)
  \/ \E d \in DOMAIN interceptors, fn \in ComposeHandlers : Composed = {} /\ CatchOn(d, fn)
  \/ Compose
  \/ \E d \in Composed : ExecuteOn(d)
  \/ ExecuteRequest
  \/ Execute
  \/ Dispatch
  \/ MwEnter
  \/ MwExit
  \/ MwPrefix
  \/ MwNext
  \/ CoreRequest
  \/ FnReturn
  \/ \E t \in Pending : TransportSucceed(t)
  \/ \E f \in Waiting :
       \/ RequestSettle(f)
       \/ ExecuteReturn(f)
       \/ DispatchReturn(f)
       \/ MwNextResolved(f)
       \/ CoreResponse(f)

SpecCompose == Init /\ [][NextCompose]_vars

(***************************************************************************)
(* Vocabulary of the properties.                                           *)
(***************************************************************************)
FramesOf(kind) == {f \in DOMAIN frames : frames[f].kind = kind}
MwAt(i) == {f \in FramesOf("mw") : frames[f].i = i}
HandlerRuns(j) == {h \in FramesOf("handler") : frames[h].i = j}
RejectedMw == {f \in FramesOf("mw") : frames[f].status = "rejected"}
\* the execute frame is the second frame made, the request frame the first
ExecDone == Len(frames) >= 2 /\ Settled(2)
ReqDone == Len(frames) >= 1 /\ Settled(1)
IsPrefix(s, t) == Len(s) <= Len(t) /\ \A p \in 1..Len(s) : s[p] = t[p]
TransportFailed == \E t \in FramesOf("transport") : frames[t].status = "rejected"
HandlerThrew == \E h \in FramesOf("handler") : frames[h].status = "rejected"
AllOnion == \A k \in 1..Len(middleware) : middleware[k] = "onion"
NoRetry == \A k \in 1..Len(middleware) : middleware[k] # "retry"
\* the entries registered before position k only pass control on
QuietBefore(k) == \A q \in 1..(k - 1) : middleware[q] \in {"onion", "retry"}
\* the rejected entry deepest in the chain: the one that failed first
Deepest == CHOOSE m \in RejectedMw : \A o \in RejectedMw : frames[o].i <= frames[m].i
\* the first registered handler that recovers
FirstRecover == CHOOSE j \in 1..Len(errorHandlers) :
                  /\ errorHandlers[j] = "recover"
                  /\ \A q \in 1..(j - 1) : errorHandlers[q] # "recover"

\* [enter(m1), ..., enter(mn), t, exit(mn), ..., exit(m1), return]
OnionTrace(n) ==
  [p \in 1..(2 * n + 2) |->
     IF p <= n THEN <<"enter", p - 1>>
     ELSE IF p = n + 1 THEN <<"transport", 1>>
     ELSE IF p <= 2 * n + 1 THEN <<"exit", 2 * n + 1 - p>>
     ELSE <<"return", 0>>]

(***************************************************************************)
(* C1  Onion ordering: with middleware m1..mn that each await next() once  *)
(* and never throw, and a terminal that does not fail, one execute runs    *)
(* the pre-next parts m1..mn, then the terminal, then the post-next parts  *)
(* mn..m1, and only then returns the context.                              *)
(***************************************************************************)
C1_OnionOrder ==
  (phase = "inflight" /\ AllOnion /\ ~TransportFailed) =>
    /\ IsPrefix(trace, OnionTrace(Len(middleware)))
    /\ ExecDone => /\ frames[2].status = "resolved"
                   /\ Len(trace) = 2 * Len(middleware) + 2

C1_Witness ==
  /\ AllOnion
  /\ Len(middleware) = 2
  /\ ExecDone
  /\ trace = <<  <<"enter", 0>>, <<"enter", 1>>, <<"transport", 1>>,
                 <<"exit", 1>>, <<"exit", 0>>, <<"return", 0>>  >>

(***************************************************************************)
(* C2  Short-circuit: when mk returns without calling next, nothing        *)
(* registered after mk and not the transport is invoked; execute returns   *)
(* normally and the request resolves with the response mk set (the entries *)
(* before mk only pass control on).                                        *)
(***************************************************************************)
C2_ShortCircuit ==
  \A k \in 1..Len(middleware) :
    middleware[k] = "short" =>
      /\ \A f \in FramesOf("mw") : frames[f].i <= k - 1
      /\ calls = 0
      /\ QuietBefore(k) =>
           /\ ExecDone => frames[2].status = "resolved"
           /\ ReqDone => /\ frames[1].status = "resolved"
                         /\ frames[1].val = MwResponse(k - 1)
                         /\ context.error = None

C2_Witness ==
  /\ ReqDone
  /\ Len(middleware) = 2
  /\ middleware[1] = "short"
  /\ frames[1].status = "resolved"
  /\ frames[1].val = MwResponse(0)
  /\ MwAt(0) # {}

(***************************************************************************)
(* C3  Handled recovery: one entry (a middleware or the terminal) throws   *)
(* E, the handlers before the recovering one return normally and that one  *)
(* sets errorHandled and a recovery response: execute resolves with        *)
(* error = E, errorHandled = true and response = the recovery value, and   *)
(* the handler list was run exactly once.                                  *)
(***************************************************************************)
C3_HandledRecovery ==
  \A m \in RejectedMw :
    (ExecDone /\ RejectedMw = {m} /\ context.errorHandled /\ ~HandlerThrew) =>
      /\ frames[2].status = "resolved"
      /\ context.error = frames[m].val
      /\ context.response = Recovery(FirstRecover)
      /\ Cardinality(FramesOf("handleError")) = 1
      /\ \A j \in 1..Len(errorHandlers) :
           Cardinality(HandlerRuns(j)) = IF j <= FirstRecover THEN 1 ELSE 0
      /\ \A h \in FramesOf("handler") : frames[h].arg = frames[m].val

C3_Witness ==
  /\ ExecDone
  /\ Cardinality(RejectedMw) = 1
  /\ context.errorHandled
  /\ errorHandlers = <<"pass", "recover">>
  /\ frames[2].status = "resolved"
  /\ context.response = Recovery(2)

(***************************************************************************)
(* C4  Unhandled propagation: with no error handler registered, a failure  *)
(* E thrown by a middleware at any depth or by the terminal makes execute  *)
(* reject, with the rejection value in context.error; the value is exactly *)
(* E when no entry above the failing one catches what next() rejects with. *)
(***************************************************************************)
C4_UnhandledPropagation ==
  (ExecDone /\ NoHandlers /\ RejectedMw # {}) =>
    /\ frames[2].status = "rejected"
    /\ frames[2].val = context.error
    /\ NoRetry => /\ frames[2].val = frames[Deepest].val
                  /\ \A m \in RejectedMw : frames[m].val = frames[Deepest].val

C4_Witness ==
  /\ ExecDone
  /\ NoHandlers
  /\ middleware = <<"onion", "throwPre">>
  /\ frames[2].status = "rejected"
  /\ frames[2].val = MwError(1)
  /\ context.error = MwError(1)

(***************************************************************************)
(* C5  Reentrant next: a second next() call of the same middleware fails   *)
(* with 'next() called multiple times' and invokes no downstream entry and *)
(* not the transport a second time.                                        *)
(***************************************************************************)
C5_ReentrantNext ==
  /\ \A d \in FramesOf("dispatch") :
       ((\E e \in FramesOf("dispatch") : e < d /\ frames[e].i = frames[d].i)
          /\ frames[d].pc # "start") =>
         /\ frames[d].status = "rejected"
         /\ frames[d].val = ReentrantNext
  /\ \A i \in 0..(Len(middleware) + 1) : Cardinality(MwAt(i)) <= 1
  /\ calls <= 1

C5_Witness ==
  /\ Len(middleware) = 2
  /\ middleware[1] = "twice"
  /\ \E d \in FramesOf("dispatch") :
       /\ frames[d].status = "rejected"
       /\ frames[d].val = ReentrantNext
       /\ frames[d].i = 1
  /\ Cardinality(MwAt(1)) = 1

(***************************************************************************)
(* C6  Retry middleware of the README: with retryMiddleware registered and *)
(* a transport that fails on its first invocation, the failed await next() *)
(* is retried by calling next() again, the transport is invoked again, and *)
(* when its later invocations succeed the request resolves with the        *)
(* successful response.                                                    *)
(***************************************************************************)
C6_RetryReachesTransport ==
  (/\ ReqDone
   /\ middleware = <<"retry">>
   /\ errorHandlers = <<>>
   /\ \E t \in FramesOf("transport") : frames[t].i = 1 /\ frames[t].status = "rejected") =>
    /\ calls >= 2
    /\ (\A t \in FramesOf("transport") : frames[t].i > 1 => frames[t].status = "resolved") =>
         /\ frames[1].status = "resolved"
         /\ frames[1].val = TransportResponse(calls)

(***************************************************************************)
(* C7  Post-next throw: a middleware that throws E after its awaited       *)
(* next() returned is caught by its dispatch frame exactly as one that     *)
(* throws before calling next: handleError is entered with E, the handlers *)
(* are invoked with E, and when the first handler recovers the request     *)
(* resolves with the recovery value, not with the transport's response.    *)
(***************************************************************************)
OwnThrow(m) ==
  /\ frames[m].b \in {"throwPre", "throwPost"}
  /\ frames[m].status = "rejected"
  /\ frames[m].val = MwError(frames[m].i)

\* the dispatch frame that invoked the entry m: the frame made just before it
Invoker(m) == m - 1

C7_PostNextThrow ==
  \A m \in FramesOf("mw") :
    OwnThrow(m) =>
      /\ frames[Invoker(m)].kind = "dispatch"
      /\ frames[Invoker(m)].pc = "done" =>
           LET he == frames[Invoker(m)].wait
           IN /\ frames[he].kind = "handleError"
              /\ frames[he].arg = MwError(frames[m].i)
              /\ ~NoHandlers =>
                   \E h \in HandlerRuns(1) : h > he /\ frames[h].arg = MwError(frames[m].i)
      /\ (/\ ReqDone
          /\ Len(errorHandlers) > 0
          /\ errorHandlers[1] = "recover"
          /\ \A q \in 1..Len(middleware) : q # frames[m].i + 1 => middleware[q] = "onion") =>
           /\ frames[1].status = "resolved"
           /\ frames[1].val = Recovery(1)
           /\ context.error = MwError(frames[m].i)

C7_Witness ==
  /\ ReqDone
  /\ middleware = <<"onion", "throwPost">>
  /\ errorHandlers = <<"recover">>
  /\ \E t \in FramesOf("transport") : frames[t].val = TransportResponse(1)
  /\ frames[1].status = "resolved"
  /\ frames[1].val = Recovery(1)
  /\ \E h \in FramesOf("handler") : frames[h].arg = MwError(1)

(***************************************************************************)
(* C8  Outcome invariant, as stated: whenever execute completes, exactly   *)
(* one of (a) response is set, (b) error is set and errorHandled is true,  *)
(* (c) error is set and errorHandled is false holds of the context.        *)
(***************************************************************************)
OutcomeA == context.response # None
OutcomeB == context.error # None /\ context.errorHandled = TRUE
OutcomeC == context.error # None /\ context.errorHandled # TRUE

C9_EveryHandlerOffered ==
  (ExecDone /\ frames[2].status = "rejected" /\ ~NoHandlers) =>
    \A j \in 1..Len(errorHandlers) :
      \E h \in HandlerRuns(j) :
        /\ frames[h].b = errorHandlers[j]
        /\ frames[h].arg # None
        /\ Settled(h)

C9_Witness ==
  /\ ExecDone
  /\ frames[2].status = "rejected"
  /\ Len(errorHandlers) = 2
  /\ HandlerRuns(1) # {}
  /\ HandlerRuns(2) # {}

(***************************************************************************)
(* C10  Handler order: on a failure the handlers h1..hk are invoked in     *)
(* registration order and strictly one after the other: h(j+1) is not      *)
(* started before the promise returned by hj has settled.                  *)
(***************************************************************************)
IsHandlerEvent(e) == e[1] \in {"hstart", "hend"}
HandlerEvents == SelectSeq(trace, IsHandlerEvent)

C10_HandlerOrder ==
  /\ \A p \in 1..Len(HandlerEvents) :
       IF p % 2 = 1
       THEN /\ HandlerEvents[p][1] = "hstart"
            /\ \/ HandlerEvents[p][2] = 1
               \/ p > 2 /\ HandlerEvents[p][2] = HandlerEvents[p - 2][2] + 1
       ELSE /\ HandlerEvents[p][1] = "hend"
            /\ HandlerEvents[p][2] = HandlerEvents[p - 1][2]
  /\ \A h \in FramesOf("handler") :
       \A g \in FramesOf("handler") : g < h => Settled(g)

C10_Witness ==
  /\ errorHandlers = <<"pass", "pass">>
  /\ HandlerRuns(2) # {}
  /\ \E h \in HandlerRuns(2) : frames[h].status = "suspended"
  /\ \A g \in HandlerRuns(1) : frames[g].status = "resolved"

(***************************************************************************)
(* C11, as stated: if handler hj sets context.errorHandled = true during   *)
(* its invocation, no handler registered after hj is invoked for that      *)
(* failure and the failure is not re-thrown.                               *)
(***************************************************************************)
\* the handleError call whose loop invoked the handler h: the last one begun before h
LoopOf(h) == CHOOSE l \in FramesOf("handleError") :
               l < h /\ \A m \in FramesOf("handleError") : m < h => m <= l
\* the handlers invoked by the loop of the handleError call l
HandlersOf(l) == {h \in FramesOf("handler") : LoopOf(h) = l}
\* the handler h has set context.errorHandled = true
HasMarked(h) == frames[h].b \in {"recover", "markFail"} /\ (frames[h].ip > 1 \/ Settled(h))

C11_MarkStopsLoop ==
  \A h \in FramesOf("handler") :
    HasMarked(h) =>
      /\ \A g \in HandlersOf(LoopOf(h)) : frames[g].i <= frames[h].i
      /\ frames[LoopOf(h)].pc = "done" => frames[LoopOf(h)].status = "resolved"

(***************************************************************************)
(* C11 as amended: if hj sets errorHandled and returns normally, no        *)
(* handler registered after hj is invoked for that failure; if hj throws   *)
(* after setting it, the loop goes on with the handler after hj; in both   *)
(* cases the failure is not re-thrown.                                     *)
(***************************************************************************)
C11_MarkAndReturnStopsLoop ==
  \A h \in FramesOf("handler") :
    HasMarked(h) =>
      /\ frames[LoopOf(h)].pc = "done" => frames[LoopOf(h)].status = "resolved"
      /\ frames[h].status # "rejected" =>
           \A g \in HandlersOf(LoopOf(h)) : frames[g].i <= frames[h].i
      /\ (/\ frames[h].status = "rejected"
          /\ frames[h].i < Len(errorHandlers)
          /\ frames[LoopOf(h)].pc = "done") =>
           \E g \in HandlersOf(LoopOf(h)) : frames[g].i = frames[h].i + 1

C11_Witness ==
  /\ errorHandlers = <<"recover", "pass">>
  /\ \E l \in FramesOf("handleError") :
       /\ frames[l].status = "resolved"
       /\ \E h \in HandlersOf(l) : frames[h].i = 1 /\ frames[h].status = "resolved"
  /\ HandlerRuns(2) = {}
  /\ ReqDone

(***************************************************************************)
(* C12  Handler failure does not abort the loop: when handler hj throws,   *)
(* the loop goes on with h(j+1) and every later handler is invoked until   *)
(* the loop breaks on errorHandled after a handler returned; context.error *)
(* is replaced by the value hj threw (and stays so until a later handler   *)
(* throws or a later failure is caught).                                   *)
(***************************************************************************)
\* the loop of l has dealt with what the handler h did
Processed(l, h) == frames[l].i > frames[h].i \/ frames[l].pc = "done"
Threw(l) == {h \in HandlersOf(l) : frames[h].status = "rejected"}
LastLoop == CHOOSE l \in FramesOf("handleError") : \A m \in FramesOf("handleError") : m <= l

ThrewBefore(l, k) == {h \in Threw(l) : frames[h].i < k}
LastThrewBefore(l, k) ==
  CHOOSE h \in ThrewBefore(l, k) : \A g \in ThrewBefore(l, k) : frames[g].i <= frames[h].i

C13_HandlerSeesCurrentError ==
  \A l \in FramesOf("handleError") :
    \A g \in HandlersOf(l) :
      ThrewBefore(l, frames[g].i) # {} =>
        HandlerArg(g) = frames[LastThrewBefore(l, frames[g].i)].val

(***************************************************************************)
(* C13 as amended: each handler receives the failure that was caught (the  *)
(* original E1) as its first argument, also after an earlier handler of    *)
(* the same loop threw E2; E2 is what the later handlers find in           *)
(* context.error.                                                          *)
(***************************************************************************)
C13_HandlerSeesCaughtError ==
  \A l \in FramesOf("handleError") :
    \A g \in HandlersOf(l) :
      /\ frames[g].arg = frames[l].arg
      /\ ~Settled(g) =>
           context.error = IF ThrewBefore(l, frames[g].i) # {}
                           THEN frames[LastThrewBefore(l, frames[g].i)].val
                           ELSE frames[l].arg

C13_Witness ==
  /\ middleware = <<"throwPre">>
  /\ errorHandlers = <<"fail", "pass">>
  /\ \E g \in HandlerRuns(2) :
       /\ ~Settled(g)
       /\ frames[g].arg = MwError(0)
       /\ context.error = HandlerError(1)

(***************************************************************************)
(* C14  Unclaimed failure is re-thrown: when handlers are registered but   *)
(* none sets errorHandled, every handleError call re-throws context.error  *)
(* as it stands after its loop (the failure it was given, or the value     *)
(* thrown by the last handler that threw), and execute rejects with it.    *)
(***************************************************************************)
LastThrew(l) == CHOOSE h \in Threw(l) : \A g \in Threw(l) : frames[g].i <= frames[h].i
AfterLoop(l) == IF Threw(l) = {} THEN frames[l].arg ELSE frames[LastThrew(l)].val

C14_UnclaimedRethrown ==
  (~NoHandlers /\ ~context.errorHandled) =>
    /\ \A l \in FramesOf("handleError") :
         frames[l].pc = "done" =>
           /\ frames[l].status = "rejected"
           /\ frames[l].val = AfterLoop(l)
           /\ l = LastLoop => context.error = frames[l].val
    /\ (ExecDone /\ FramesOf("handleError") # {}) =>
         /\ frames[2].status = "rejected"
         /\ frames[2].val = context.error
         /\ frames[2].val = AfterLoop(LastLoop)
         /\ (~HandlerThrew) => frames[2].val = frames[Deepest].val

C14_Witness ==
  /\ ExecDone
  /\ middleware = <<"onion", "throwPre">>
  /\ errorHandlers = <<"pass", "fail">>
  /\ frames[2].status = "rejected"
  /\ frames[2].val = HandlerError(2)
  /\ context.error = HandlerError(2)
  /\ Cardinality(FramesOf("handleError")) = 3

(***************************************************************************)
(* C15  First failure wins: the error path assigns context.error = e only  *)
(* if context.error is not already set; once a failure of this execute is  *)
(* recorded, a later middleware failure does not overwrite it (no handler  *)
(* having thrown).                                                         *)
(***************************************************************************)
FirstLoop == CHOOSE l \in FramesOf("handleError") : \A m \in FramesOf("handleError") : l <= m

C15_FirstFailureWins ==
  \A l \in FramesOf("handleError") :
    (frames[l].pc # "start" /\ ~HandlerThrew) => context.error = frames[FirstLoop].arg

(***************************************************************************)
(* C16, as stated: when the entry invoked by dispatch(i) throws, the       *)
(* failure is caught at that frame and is not re-thrown up the call stack: *)
(* the promise of the next() that started dispatch(i) does not reject and  *)
(* middleware i-1 never observes the exception.                            *)
(***************************************************************************)
C16_NeverRethrown ==
  \A m \in RejectedMw :
    /\ frames[Invoker(m)].kind = "dispatch"
    /\ frames[Invoker(m)].status # "rejected"

(***************************************************************************)
(* C16 as amended: when the entry invoked by dispatch(i) throws E, the     *)
(* frame catches E and hands it to handleError before it settles; the      *)
(* promise of that next() resolves when the failure was marked handled,    *)
(* and otherwise rejects with what handleError re-throws (context.error),  *)
(* which a middleware i-1 that does not catch passes on.                   *)
(***************************************************************************)
C16_PerFrameCapture ==
  \A m \in RejectedMw :
    LET d == Invoker(m)
        he == frames[d].wait
    IN /\ frames[d].kind = "dispatch"
       /\ frames[d].pc = "done" =>
            /\ frames[he].kind = "handleError"
            /\ frames[he].arg = frames[m].val
            /\ frames[d].status = frames[he].status
            /\ frames[d].status = "resolved" => context.errorHandled
            /\ frames[d].status = "rejected" =>
                 /\ frames[d].val = AfterLoop(he)
                 /\ \A u \in FramesOf("mw") :
                      (frames[u].wait = d /\ Settled(u)) =>
                        frames[u].status = "rejected" /\ frames[u].val = frames[d].val

C16_Witness ==
  /\ middleware = <<"onion", "throwPre">>
  /\ errorHandlers = <<"pass">>
  /\ ExecDone
  /\ \E d \in FramesOf("dispatch") :
       /\ frames[d].i = 1
       /\ frames[d].status = "rejected"
       /\ frames[d].val = MwError(1)
  /\ \E u \in MwAt(0) : frames[u].status = "rejected" /\ frames[u].val = MwError(1)

(***************************************************************************)
(* C17  Request outcome: once the pipeline has ended the response promise  *)
(* resolves with context.response (possibly undefined) if context.error is *)
(* unset or errorHandled is true, and otherwise rejects with               *)
(* context.error, also when execute itself returned normally while an      *)
(* unhandled error is recorded on the context.                             *)
(***************************************************************************)
C17_RequestOutcome ==
  ReqDone =>
    IF context.error = None \/ context.errorHandled
    THEN frames[1].status = "resolved" /\ frames[1].val = context.response
    ELSE frames[1].status = "rejected" /\ frames[1].val = context.error

C17_Witness ==
  /\ ReqDone
  /\ middleware = <<"swallow", "throwPre">>
  /\ frames[2].status = "resolved"
  /\ context.error = MwError(1)
  /\ ~context.errorHandled
  /\ frames[1].status = "rejected"
  /\ frames[1].val = MwError(1)

(***************************************************************************)
(* C18, as stated: with no error handler registered, every failure thrown  *)
(* by a middleware or by the transport rejects the response promise with   *)
(* that failure, whatever else the middleware did to the context.          *)
(***************************************************************************)
C18_NoHandlerRejects ==
  (ReqDone /\ NoHandlers /\ RejectedMw # {}) =>
    /\ frames[1].status = "rejected"
    /\ frames[1].val = frames[Deepest].val

(***************************************************************************)
(* C18 as amended: with no error handler registered, a failure thrown by a *)
(* middleware or by the transport rejects the response promise with that   *)
(* failure, also when a middleware above swallowed it, unless a middleware *)
(* set context.errorHandled = true: then the promise resolves with         *)
(* context.response.                                                       *)
(***************************************************************************)
C18_NoHandlerOutcome ==
  (ReqDone /\ NoHandlers /\ RejectedMw # {}) =>
    /\ context.error = frames[Deepest].val
    /\ IF context.errorHandled
       THEN frames[1].status = "resolved" /\ frames[1].val = context.response
       ELSE frames[1].status = "rejected" /\ frames[1].val = frames[Deepest].val

C18_Witness ==
  /\ ReqDone
  /\ NoHandlers
  /\ middleware = <<"swallow", "onion">>
  /\ TransportFailed
  /\ frames[2].status = "resolved"
  /\ frames[1].status = "rejected"
  /\ frames[1].val = TransportError(1)

(***************************************************************************)
(* C19  Transport exactly once per request: a request that is not          *)
(* short-circuited and whose middleware do not fail before the terminal    *)
(* invokes the transport exactly once, however many requests were issued   *)
(* earlier on the same client; issuing a request adds nothing to the       *)
(* client's middleware list.                                               *)
(***************************************************************************)
\* the context of the r-th call
CtxOf(r) == IF r = cur THEN context ELSE parked[r].context
\* the transport invocations made while the r-th call's execute ran
TransportsOf(r) == {t \in FramesOf("transport") : frames[t].r = r}
\* the middleware and terminals invoked by the r-th call's execute
EntriesOf(r) == {m \in FramesOf("mw") : frames[m].r = r}

C19_OncePerRequestSoFar ==
  \A r \in 1..Len(parked) : Cardinality(TransportsOf(r)) <= 1

C19_TransportOncePerRequest ==
  /\ \A k \in 1..Len(middleware) : middleware[k] \notin Terminals
  /\ C19_OncePerRequestSoFar
  /\ \A f \in FramesOf("fetch") :
       Settled(f) => Cardinality(TransportsOf(frames[f].r)) = 1

(***************************************************************************)
(* C20  Concurrent executions are independent: whatever the interleaving   *)
(* of their await points, an execute invokes the middleware and terminals  *)
(* it would invoke when run alone (those registered when it was started,   *)
(* so never the terminal of a call issued later), raises no ReentrantNext  *)
(* failure, and its context receives no response or error of another call. *)
(***************************************************************************)
\* the entry that made the transport invocation t: the one awaiting its promise
CallerOf(t) == CHOOSE m \in FramesOf("mw") : frames[m].wait = t

C20_ConcurrentIndependent ==
  /\ \A r \in 1..Len(parked) :
       /\ \A m \in EntriesOf(r) :
            frames[m].b \in Terminals => TerminalIndex(frames[m].b) <= r
       /\ \A t \in TransportsOf(r) :
            CtxOf(r).response = TransportResponse(frames[t].i) =>
              TerminalIndex(frames[CallerOf(t)].b) <= r
  /\ \A d \in FramesOf("dispatch") : frames[d].val # ReentrantNext

(***************************************************************************)
(* C22  No background work: when the promise of execute settles, every     *)
(* middleware frame and terminal that this execute started has completed   *)
(* (and the transport call of the terminal has settled), whether the       *)
(* middleware call `await next()` or plain `next()`.                       *)
(***************************************************************************)
Started == FramesOf("mw") \cup FramesOf("dispatch") \cup FramesOf("transport")
\* entries that called next() and dropped its promise
Floating == {m \in FramesOf("mw") : Op(m) = "call" /\ frames[m].pc = "called"}
              \cup {m \in FramesOf("mw") : frames[m].b = "plain" /\ frames[m].ip > 2}

GuardFailures ==
  {d \in FramesOf("dispatch") :
     frames[d].status = "rejected" /\ frames[d].val = ReentrantNext /\ frames[d].wait = 0}
\* the error path entered with the failure of d: the first handleError after d
OfferedTo(d) ==
  {l \in FramesOf("handleError") :
     /\ l > d
     /\ frames[l].arg = ReentrantNext
     /\ \A e \in GuardFailures : ~(d < e /\ e < l)}

C26_ReentrantRouted ==
  (ExecDone /\ errorHandlers # <<>>) =>
    \A d \in GuardFailures :
      \E l \in OfferedTo(d) : \E h \in FramesOf("handler") : h > l /\ frames[h].arg = ReentrantNext

(***************************************************************************)
(* C27  The response promise always settles: when every promise of a       *)
(* middleware, an error handler and the transport settles, the response    *)
(* promise of a request that was issued eventually settles, it settles     *)
(* once (its state and value never change afterwards), and when rejected   *)
(* it carries the final unrecovered error of the context.                  *)
(***************************************************************************)
C27_ResponseSettles ==
  /\ (phase = "inflight") ~> ReqDone
  /\ [][ReqDone => /\ frames'[1].status = frames[1].status
                   /\ frames'[1].val = frames[1].val]_vars
  /\ [](ReqDone /\ frames[1].status = "rejected" =>
          /\ frames[1].val = context.error
          /\ ~context.errorHandled)

C27_Witness ==
  /\ ReqDone
  /\ frames[1].status = "rejected"
  /\ errorHandlers # <<>>
  /\ \E t \in FramesOf("transport") : Settled(t)

(***************************************************************************)
(* C21  Task handle per request: the task a request obtains (the value of  *)
(* its getTask() promise; for BreezeRequest, the taskHandle it reads while *)
(* its transport call is in flight) is the handle that the transport       *)
(* passed for that same request, never the handle of another request that  *)
(* is in flight on the same client.                                        *)
(***************************************************************************)
TaskOf(r) == IF phase = "inflight" THEN taskPromise[r] ELSE taskHandle
HandlesOf(r) == {Handle(frames[t].i) : t \in TransportsOf(r)}

C21_TaskHandlePerRequest ==
  \A r \in 1..(Len(parked) + Len(taskPromise)) :
    (\E t \in TransportsOf(r) : frames[t].status = "pending") => TaskOf(r) \in HandlesOf(r)

(***************************************************************************)
(* C23  Cancellation takes the normal error path: when the caller aborts   *)
(* through the task of getTask() while the transport is pending, the       *)
(* transport's rejection is caught like any other terminal failure: the    *)
(* error path is entered with it, the registered handlers are invoked with *)
(* it (up to one that marks it handled) and, if none marks it handled, the *)
(* response promise rejects with that abort failure.                       *)
(***************************************************************************)
Aborted ==
  {t \in FramesOf("transport") :
     frames[t].status = "rejected" /\ frames[t].val = AbortFailure(frames[t].i)}

C23_AbortTakesErrorPath ==
  \A t \in Aborted :
    ReqDone =>
      /\ \E l \in FramesOf("handleError") : frames[l].arg = frames[t].val
      /\ \A j \in 1..Len(errorHandlers) :
           (\A k \in 1..(j - 1) : errorHandlers[k] # "recover") =>
             \E h \in HandlerRuns(j) : frames[h].arg = frames[t].val
      /\ context.error = frames[t].val
      /\ IF context.errorHandled
         THEN frames[1].status = "resolved"
         ELSE frames[1].status = "rejected" /\ frames[1].val = frames[t].val

C23_Witness ==
  /\ Aborted # {}
  /\ ReqDone
  /\ frames[1].status = "rejected"
  /\ errorHandlers = <<"pass", "pass">>
  /\ taskPromise[1] = Handle(1)

(***************************************************************************)
(* C28  The transport sees the request as the middleware left it: the      *)
(* descriptor handed to the transport is the request of the context, as    *)
(* mutated by the pre-next parts of the middleware; with the base URL      *)
(* middleware registered, a URL that does not start with 'http' reaches    *)
(* the transport prefixed with the base ('/users/1' with base              *)
(* 'https://api.example.com' gives 'https://api.example.com/users/1').     *)
(***************************************************************************)
PrefixedFor(r) == \E m \in EntriesOf(r) : frames[m].b = "baseUrl" /\ frames[m].ip > 1

C28_TransportSeesRequest ==
  \A t \in FramesOf("transport") :
    /\ frames[t].arg.url = CtxOf(frames[t].r).request.url
    /\ PrefixedFor(frames[t].r) => frames[t].arg.url = Base \o Path

(***************************************************************************)
(* C29  Option merge: the options handed to the transport are the instance *)
(* defaults overridden field by field by the options that request() was    *)
(* called with; the headers map is the key-by-key union of the default and *)
(* the call-site headers, the call-site value winning on a shared key, and *)
(* default headers absent from the call site are preserved.                *)
(***************************************************************************)
\* the options request() was called with, and the ones the transport got
Given == frames[1].arg.options
Sent(t) == frames[t].arg.options
HeaderOf(o, h) == IF o.headers = AbsentHeaders THEN Absent ELSE o.headers[h]

C29_OptionMerge ==
  \A t \in FramesOf("transport") :
    /\ \A k \in OptionFields \ {"headers"} :
         Sent(t)[k] = IF Given[k] # Absent THEN Given[k] ELSE defaultOptions[k]
    /\ \A h \in HeaderNames :
         Sent(t).headers[h] = IF HeaderOf(Given, h) # Absent
                              THEN HeaderOf(Given, h)
                              ELSE HeaderOf(defaultOptions, h)

C29_Witness ==
  \E t \in FramesOf("transport") :
    /\ HeaderOf(defaultOptions, "Token") = "default"
    /\ HeaderOf(Given, "Accept") = "call"
    /\ HeaderOf(Given, "Token") = Absent
    /\ Sent(t).headers = [Accept |-> "call", Token |-> "default"]
    /\ defaultOptions.timeout = "default"
    /\ Given.timeout = "call"

(***************************************************************************)
(* C30  Verb shortcuts are sugar: V(url, data, options) is                 *)
(* request(url, data, options with method = V): the transport receives     *)
(* method V, also when the instance defaults or the call-site options name *)
(* another method, and every other option as request() merges it.          *)
(***************************************************************************)
C30_VerbIsSugar ==
  \A t \in FramesOf("transport") :
    frames[1].b \in Verbs =>
      /\ Sent(t).method = frames[1].b
      /\ Given.method = frames[1].b
      /\ \A k \in OptionFields \ {"method"} :
           Sent(t)[k] = combineRequestOptions(defaultOptions, Given)[k]

C30_Witness ==
  \E t \in FramesOf("transport") :
    /\ frames[1].b = "DELETE"
    /\ defaultOptions.method = "POST"
    /\ Sent(t).method = "DELETE"
    /\ Settled(1)

(***************************************************************************)
(* C24  Composition concatenates: the instance compose(d1, ..., dk)        *)
(* returns has as middleware list the concatenation, in argument order, of *)
(* the arguments' middleware lists and as error-handler list the           *)
(* concatenation, in argument order, of their error-handler lists, so its  *)
(* middleware count is the sum of theirs; and a request served by it       *)
(* invokes each of these middleware, and the terminal, exactly once.       *)
(***************************************************************************)
RECURSIVE Concat(_)
Concat(ss) == IF ss = <<>> THEN <<>> ELSE Head(ss) \o Concat(Tail(ss))
RECURSIVE Total(_)
Total(ns) == IF ns = <<>> THEN 0 ELSE Head(ns) + Total(Tail(ns))
\* the arguments the instance c was composed of
ArgumentsOf(c) == interceptors[c].of
\* the instance that serves the request
Serving == frames[1].arg.on

C24_ComposeConcatenates ==
  /\ \A c \in Composed :
       LET ds == ArgumentsOf(c)
       IN /\ MiddlewareOf(c) = Concat([j \in DOMAIN ds |-> MiddlewareOf(ds[j])])
          /\ ErrorHandlersOf(c) = Concat([j \in DOMAIN ds |-> ErrorHandlersOf(ds[j])])
          /\ Len(MiddlewareOf(c)) = Total([j \in DOMAIN ds |-> Len(MiddlewareOf(ds[j]))])
  /\ phase = "inflight" /\ Settled(1) =>
       /\ middleware = MiddlewareOf(Serving)
       /\ \A k \in DOMAIN middleware :
            /\ Cardinality(MwAt(k - 1)) = 1
            /\ \A m \in MwAt(k - 1) : frames[m].b = middleware[k]
       /\ Cardinality(MwAt(Len(middleware))) = 1
       /\ \A m \in MwAt(Len(middleware)) : frames[m].b = "core"
       /\ Cardinality(FramesOf("transport")) = 1

C24_Witness ==
  /\ phase = "inflight"
  /\ Settled(1)
  /\ Serving \in Composed
  /\ \E d, e \in DOMAIN interceptors :
       /\ ArgumentsOf(Serving) = <<d, e>>
       /\ MiddlewareOf(d) = <<"baseUrl">>
       /\ MiddlewareOf(e) = <<"onion">>
       /\ middleware = <<"baseUrl", "onion">>

(***************************************************************************)
(* C25  Composition is a snapshot: a use or catch call on one instance,    *)
(* an argument of compose or the composed instance alike, changes the      *)
(* lists of no other instance, and compose leaves the lists of all its     *)
(* arguments unchanged.                                                    *)
(***************************************************************************)
ListsOf(d) == <<MiddlewareOf(d), ErrorHandlersOf(d)>>

C25_ComposeIsSnapshot ==
  [][/\ Len(interceptors') > Len(interceptors) =>
          \A d \in DOMAIN interceptors : ListsOf(d)' = ListsOf(d)
     /\ \A d, e \in DOMAIN interceptors :
          d # e /\ ListsOf(d)' # ListsOf(d) => ListsOf(e)' = ListsOf(e)]_vars

\* an argument was used after compose, and the composed instance was too
C25_Witness ==
  \E c \in Composed, d \in DOMAIN interceptors :
    /\ ArgumentsOf(c) = <<d>>
    /\ Len(MiddlewareOf(c)) > 0
    /\ Len(MiddlewareOf(d)) > Len(MiddlewareOf(c))
    /\ Len(ErrorHandlersOf(c)) > Len(ErrorHandlersOf(d))

(***************************************************************************)
(* C31  Registration: use(fn) appends fn at the end of the middleware list *)
(* and changes nothing else, catch(fn) appends fn at the end of the        *)
(* error-handler list and changes nothing else, and no step removes or     *)
(* reorders an entry of either list.                                       *)
(***************************************************************************)
Prefix(s, t) == Len(s) <= Len(t) /\ SubSeq(t, 1, Len(s)) = s
Rest == <<context, index, frames, stack, trace, calls, phase, cur, parked, tasks, others>>

C31_RegistrationAppends ==
  [][/\ Prefix(middleware, middleware')
     /\ Prefix(errorHandlers, errorHandlers')
     /\ middleware' # middleware =>
          /\ Len(middleware') = Len(middleware) + 1
          /\ UNCHANGED <<errorHandlers, Rest>>
     /\ errorHandlers' # errorHandlers =>
          /\ Len(errorHandlers') = Len(errorHandlers) + 1
          /\ UNCHANGED <<middleware, Rest>>]_vars

\* both lists hold two different entries, registered one after the other
C31_Witness ==
  /\ middleware = <<"onion", "swallow">>
  /\ errorHandlers = <<"recover", "pass">>
  /\ phase = "inflight"

(***************************************************************************)
(* C32  Missing platform primitive: when wx.request is not available the   *)
(* default transport rejects with the error 'wx.request is not defined.    *)
(* ...' without calling setTask, and the request made through it rejects   *)
(* with that error when no handler marked it handled.                      *)
(***************************************************************************)
C32_MissingPrimitive ==
  wx # "available" =>
    /\ \A t \in FramesOf("transport") :
         /\ frames[t].status = "rejected"
         /\ frames[t].val = MissingWx
    /\ \A r \in DOMAIN taskPromise : taskPromise[r] = None
    /\ (FramesOf("transport") # {} /\ Settled(1) /\ ~context.errorHandled) =>
         /\ frames[1].status = "rejected"
         /\ frames[1].val = MissingWx

(***************************************************************************)
(* C33  Lists are read live: a middleware appended with use while the      *)
(* execute is in flight, at an index the cursor had not reached, is        *)
(* invoked by that execute; a handler appended with catch before a failure *)
(* is caught is invoked for that failure (as far as the loop gets: no      *)
(* handler marked the failure handled).                                    *)
(***************************************************************************)
\* the index at which the use call noted at trace[k] put its middleware
PlaceOf(k) == Len(middleware) - Cardinality({l \in LateUses : l >= k})
\* that middleware was invoked, once
InvokedLate(k) ==
  /\ Cardinality(MwAt(PlaceOf(k))) = 1
  /\ \A m \in MwAt(PlaceOf(k)) : frames[m].b = middleware[PlaceOf(k) + 1]
\* the handler loops begun after trace[k]
LoopsAfter(k) == {l \in DOMAIN trace : l > k /\ trace[l] = <<"hstart", 1>>}
\* every loop begun after a catch call got to the handler it appended
HandlersReadLive ==
  ~context.errorHandled =>
    \A k \in LateCatches : \A l \in LoopsAfter(k) :
      \E h \in DOMAIN trace : h >= l /\ trace[h] = <<"hstart", trace[k][2]>>

C33_ListsReadLive ==
  (phase = "inflight" /\ Settled(1)) =>
    /\ \A k \in LateUses : trace[k][2] < PlaceOf(k) => InvokedLate(k)
    /\ HandlersReadLive

(***************************************************************************)
(* C33, amended: a middleware appended in flight at an index the cursor    *)
(* had not reached is the one invoked when a later next() dispatches that  *)
(* index; when no next() does (an entry before it does not call next, or   *)
(* the chain had already run past the end of the list) it is not invoked.  *)
(***************************************************************************)
C33_ListsReadLiveWhenDispatched ==
  (phase = "inflight" /\ Settled(1)) =>
    /\ \A k \in LateUses :
         trace[k][2] < PlaceOf(k) =>
           IF index >= PlaceOf(k) THEN InvokedLate(k) ELSE MwAt(PlaceOf(k)) = {}
    /\ HandlersReadLive

\* a middleware was appended while the first one waited, and it ran; a
\* handler was appended while the transport was pending, and it ran
C33_Witness ==
  /\ phase = "inflight"
  /\ Settled(1)
  /\ ~context.errorHandled
  /\ \E k \in LateUses : trace[k][2] < PlaceOf(k) /\ InvokedLate(k)
  /\ \E k \in LateCatches : trace[k][2] = 2 /\ LoopsAfter(k) # {}

(***************************************************************************)
(* C34  Handler multiplicity on an unclaimed failure: when the entry at    *)
(* index k throws (the terminal being index n), every upstream middleware  *)
(* awaits next() without catching, at least one handler is registered and  *)
(* no handler marks the failure handled or throws, each handler is invoked *)
(* exactly k + 2 times during that execute, each time with that failure.   *)
(***************************************************************************)
Onions(S) == \A i \in S : middleware[i] = "onion"
\* the one entry that throws, 0-based, and what it throws: k is a middleware
\* that throws before or after its next(), or the terminal whose transport fails
ThrowsAt(k) ==
  \/ /\ k < Len(middleware)
     /\ middleware[k + 1] = "throwPre"
     /\ Onions(1..k)
  \/ /\ k < Len(middleware)
     /\ middleware[k + 1] = "throwPost"
     /\ Onions(DOMAIN middleware \ {k + 1})
     /\ ~TransportFailed
  \/ /\ k = Len(middleware)
     /\ Onions(DOMAIN middleware)
     /\ TransportFailed
ThrownAt(k) == IF k < Len(middleware) THEN MwError(k) ELSE TransportError(1)
QuietOnly == errorHandlers # <<>> /\ \A j \in DOMAIN errorHandlers : errorHandlers[j] = "pass"

C34_HandlerMultiplicity ==
  (phase = "inflight" /\ Settled(1) /\ QuietOnly) =>
    \A k \in 0..Len(middleware) :
      ThrowsAt(k) =>
        \A j \in DOMAIN errorHandlers :
          /\ Cardinality(HandlerRuns(j)) = k + 2
          /\ \A h \in HandlerRuns(j) : frames[h].arg = ThrownAt(k)

\* the second of two entries throws: each of two handlers ran three times
C34_Witness ==
  /\ phase = "inflight"
  /\ Settled(1)
  /\ middleware = <<"onion", "throwPre">>
  /\ errorHandlers = <<"pass", "pass">>
  /\ Cardinality(HandlerRuns(1)) = 3
  /\ Cardinality(HandlerRuns(2)) = 3

(***************************************************************************)
(* C35  errorHandled is sticky: nothing resets it during an execute; a     *)
(* failure caught after it became true overwrites context.error, has the   *)
(* handler loop run only up to the first handler that returns normally,    *)
(* and is never re-thrown, so that execute resolves although no handler    *)
(* marked that later failure.                                              *)
(***************************************************************************)
\* the handleError call l began after a handler had marked a failure handled
AfterClaim(l) == \E h \in FramesOf("handler") : h < l /\ HasMarked(h)
\* no handler invoked by the loop of l has marked
Unmarked(l) == \A h \in HandlersOf(l) : ~HasMarked(h)
\* the last handleError call made so far
LastCall == CHOOSE l \in FramesOf("handleError") : \A m \in FramesOf("handleError") : m <= l

C35_StickyHandled ==
  /\ [][context.errorHandled => context'.errorHandled]_vars
  /\ [](\A l \in FramesOf("handleError") :
          AfterClaim(l) =>
            /\ frames[l].pc # "start" => context.errorHandled
            /\ \A h \in HandlersOf(l) :
                 frames[h].status = "resolved" =>
                   \A g \in HandlersOf(l) : frames[g].i <= frames[h].i
            /\ Settled(l) => frames[l].status = "resolved"
            /\ (l = LastCall /\ frames[l].pc # "start"
                  /\ \A h \in HandlersOf(l) : frames[h].status # "rejected") =>
                 context.error = frames[l].arg)
  /\ [](phase = "inflight" /\ Len(frames) >= 2 /\ Settled(2) /\ context.errorHandled =>
          frames[2].status = "resolved")

\* the terminal's failure was marked handled; then the first middleware threw
\* after its next(): no handler marked that failure, and execute resolved
C35_Witness ==
  /\ phase = "inflight"
  /\ Settled(1)
  /\ frames[2].status = "resolved"
  /\ \E l \in FramesOf("handleError") :
       /\ AfterClaim(l)
       /\ Unmarked(l)
       /\ frames[l].arg = MwError(0)
       /\ context.error = MwError(0)
       /\ \E h \in HandlersOf(l) : frames[h].b = "pass" /\ frames[h].status = "resolved"

(***************************************************************************)
(* C36  Unwinding after a handled failure: when the failure caught by the  *)
(* dispatch frame i is marked handled, the next() awaited by middleware    *)
(* i-1 resolves and the post-next parts of m(i-1), ..., m1 run in reverse  *)
(* order as on success; when it stays unhandled that next() rejects and    *)
(* the post-next parts of the upstream middleware that do not catch it are *)
(* skipped.                                                                *)
(***************************************************************************)
\* the dispatch frames that caught a failure and whose handleError is over
Caught == {d \in FramesOf("dispatch") :
             /\ frames[d].wait # 0
             /\ Awaited(d).kind = "handleError"
             /\ Settled(frames[d].wait)}
\* the middleware whose next() made the dispatch frame d, awaiting it only
AwaitingOnly(d) == {c \in FramesOf("mw") : frames[c].b = "onion" /\ frames[c].wait = d}
Exit(i) == <<"exit", i>>
HasExit(i) == \E p \in DOMAIN trace : trace[p] = Exit(i)
ExitsBelow(k) == SelectSeq(trace, LAMBDA e : e[1] = "exit" /\ e[2] < k)
Countdown(k) == [p \in 1..k |-> Exit(k - p)]
FirstRecovers == errorHandlers # <<>> /\ errorHandlers[1] = "recover"

C36_Unwinding ==
  /\ \A d \in Caught :
       /\ frames[d].pc = "done" => frames[d].status = Awaited(d).status
       /\ \A c \in AwaitingOnly(d) :
            Settled(c) =>
              IF Awaited(d).status = "resolved"
              THEN /\ frames[c].status = "resolved"
                   /\ HasExit(frames[c].i)
              ELSE /\ frames[c].status = "rejected"
                   /\ frames[c].val = Awaited(d).val
                   /\ ~HasExit(frames[c].i)
  /\ (phase = "inflight" /\ Settled(1)) =>
       \A k \in 0..Len(middleware) :
         ThrowsAt(k) =>
           /\ FirstRecovers =>
                /\ ExitsBelow(k) = Countdown(k)
                /\ frames[2].status = "resolved"
           /\ (NoHandlers \/ QuietOnly) =>
                /\ ExitsBelow(k) = <<>>
                /\ frames[2].status = "rejected"

\* the terminal failed under two middleware: handled, both post-next parts ran
\* in reverse order
C36_Witness ==
  /\ phase = "inflight"
  /\ Settled(1)
  /\ middleware = <<"onion", "onion">>
  /\ errorHandlers = <<"recover">>
  /\ TransportFailed
  /\ ExitsBelow(2) = <<Exit(1), Exit(0)>>
  /\ \E d \in Caught : frames[d].i = 2 /\ Awaited(d).status = "resolved"

(***************************************************************************)
(* C37  Cursor invariant: within one execute the dispatch cursor starts at *)
(* -1, never decreases and is private to that execute; consequently every  *)
(* middleware and the terminal is invoked at most once per execute,        *)
(* however often and whenever the middleware call next.                    *)
(***************************************************************************)
\* the cursor of the execute of the r-th call
CursorOf(r) == IF r = cur THEN index ELSE parked[r].index
Executing(r) == \E e \in FramesOf("execute") : frames[e].r = r /\ frames[e].pc # "start"
\* the dispatch frames of the r-th call that went past the cursor test
Passed(r) == {d \in FramesOf("dispatch") :
                /\ frames[d].r = r
                /\ frames[d].pc # "start"
                /\ frames[d].val # ReentrantNext}
Highest(r) ==
  IF Passed(r) = {} THEN -1
  ELSE CHOOSE i \in {frames[d].i : d \in Passed(r)} : \A d \in Passed(r) : frames[d].i <= i
InvokedAt(r, i) == {m \in EntriesOf(r) : frames[m].i = i}

\* The frames of a call are never taken back, so that Highest(r) never
\* decreases: a cursor that equals it starts at -1 and never decreases, and
\* the cursor of a call that is not running is not moved by the one that is.
C37_Cursor ==
  \A r \in DOMAIN parked :
    /\ CursorOf(r) >= -1
    /\ Executing(r) => CursorOf(r) = Highest(r)
    /\ \A i \in 0..Len(middleware) : Cardinality(InvokedAt(r, i)) <= 1

\* two calls overlap, the cursor of the first further than that of the second,
\* and in the first a second next() was refused: every entry ran once
C37_Witness ==
  /\ Len(parked) = 2
  /\ Executing(1)
  /\ Executing(2)
  /\ CursorOf(2) < CursorOf(1)
  /\ CursorOf(2) >= 0
  /\ \E d \in FramesOf("dispatch") : frames[d].r = 1 /\ frames[d].val = ReentrantNext
  /\ \E f \in FramesOf("fetch") : frames[f].r = 1 /\ ~Settled(f)
  /\ \A i \in 0..CursorOf(1) - 1 : Cardinality(InvokedAt(1, i)) = 1

(***************************************************************************)
(* C38  Task promise can stay pending: the promise that getTask returns    *)
(* never rejects and resolves only when the transport calls setTask; when  *)
(* the transport is never invoked (short-circuit, or a middleware failing  *)
(* before the terminal) or never calls setTask, it stays pending, also     *)
(* once the response promise has settled; and when setTask is called more  *)
(* than once only the first task is delivered.                             *)
(***************************************************************************)
\* what the promise of getTask() came to: None while it is pending
getTask == taskPromise[1]
\* the transport invocations that called setTask
Informing == {t \in FramesOf("transport") : frames[t].n >= 1}

C38_TaskPromise ==
  phase = "inflight" =>
    /\ getTask \in {None} \cup {Handle(n) : n \in 1..(MaxSetTask + 1)}
    /\ Informing = {} => getTask = None
    /\ \A t \in Informing : getTask = Handle(frames[t].i)

\* the transport called setTask twice and has answered: the first task
C38_Witness ==
  /\ phase = "inflight"
  /\ Settled(1)
  /\ getTask = Handle(1)
  /\ \E t \in Informing : frames[t].n = 2 /\ frames[t].i = 1

====
